---------------------------- MODULE Spec2Model ----------------------------
(***************************************************************************)
(* A model of the aapt2 resource table, of the records the resource        *)
(* parser inserts into it, and of the table merger.                        *)
(*                                                                         *)
(* Strings are TLA+ strings; \o, Len and SubSeq act on them as they do on  *)
(* sequences of characters.                                                *)
(***************************************************************************)
EXTENDS Integers, Sequences, FiniteSets, TLC

VARIABLES
    table,          \* the ResourceTable under operation (the merger's master table)
    filesToMerge,   \* TableMerger::mFilesToMerge
    mergedPackages, \* TableMerger::mMergedPackages
    options,        \* TableMergerOptions of the merger
    last,           \* the last call: its operation, arguments and result
    prev,           \* the table and the files to merge as the last call found them
    nops,           \* number of calls issued so far
    parser          \* the ResourceParser at work on a document: how far
                    \* parseResources is, its error flag and its diagnostics

vars == <<table, filesToMerge, mergedPackages, options, last, prev, nops, parser>>

\* The number of calls one behaviour issues.
MaxOps == 3

(***************************************************************************)
(* Strings and paths                                                       *)
(***************************************************************************)

\* Index of the first occurrence of ch in s at or after i, 0 when none.
RECURSIVE IndexFrom(_, _, _)
IndexFrom(s, ch, i) ==
    IF i > Len(s) THEN 0
    ELSE IF SubSeq(s, i, i) = ch THEN i
    ELSE IndexFrom(s, ch, i + 1)

\* Index of the last occurrence of ch in s at or before i, 0 when none.
RECURSIVE LastIndexFrom(_, _, _)
LastIndexFrom(s, ch, i) ==
    IF i < 1 THEN 0
    ELSE IF SubSeq(s, i, i) = ch THEN i
    ELSE LastIndexFrom(s, ch, i - 1)

\* file::getFilename: what follows the last directory separator.
getFilename(path) ==
    SubSeq(path, LastIndexFrom(path, "/", Len(path)) + 1, Len(path))

\* file::getExtension: the file name from its first '.', empty when it has none.
getExtension(path) ==
    LET filename == getFilename(path)
        dot == IndexFrom(filename, ".", 1)
    IN  IF dot = 0 THEN "" ELSE SubSeq(filename, dot, Len(filename))

\* A mangled name with '.' where '$' belongs.
mangleEntryWithDot(package, entry) == package \o "." \o entry

\* NameMangler::mangleEntry: <package>$<entry>.
mangleEntry(package, entry) == package \o "$" \o entry

\* The compilation package and the mangling policy of the context the merger
\* runs in.
CompilationPackage == "com.app.a"
LibraryPackage == "com.app.b"
PackagesToMangle == {LibraryPackage}

\* NameMangler::shouldMangle.
shouldMangle(package) ==
    IF package = "" \/ package = CompilationPackage THEN FALSE
    ELSE package \in PackagesToMangle

\* A resource name may not hold the mangling separator (addResource and
\* setSymbolState validate the entry name; the AllowMangled variants do not).
IsValidEntryName(entry) == IndexFrom(entry, "$", 1) = 0

(***************************************************************************)
(* Configurations                                                          *)
(***************************************************************************)

DefaultConfig == [locale |-> "", density |-> "", sdkVersion |-> 0]
ConfigEn == [locale |-> "en", density |-> "", sdkVersion |-> 0]
ConfigFrFR == [locale |-> "fr-rFR", density |-> "", sdkVersion |-> 0]
\* What parsing "hdpi" yields: a density qualifier implies SDK level 4.
ConfigHdpiV4 == [locale |-> "", density |-> "hdpi", sdkVersion |-> 4]

Configs == {DefaultConfig, ConfigEn, ConfigFrFR, ConfigHdpiV4}

\* Decimal text of an SDK level.
SdkToString(n) ==
    CASE n = 4 -> "4" [] n = 8 -> "8" [] n = 21 -> "21" [] OTHER -> "0"

\* A list of qualifier parts joined by '-', empty parts left out.
RECURSIVE JoinParts(_)
JoinParts(parts) ==
    IF parts = <<>> THEN ""
    ELSE LET rest == JoinParts(Tail(parts))
         IN  IF Head(parts) = "" THEN rest
             ELSE IF rest = "" THEN Head(parts)
             ELSE Head(parts) \o "-" \o rest

\* ConfigDescription::toString (operator<<): the qualifiers in their fixed order.
ConfigToString(config) ==
    JoinParts(<<config.locale, config.density,
                IF config.sdkVersion = 0 THEN ""
                ELSE "v" \o SdkToString(config.sdkVersion)>>)

\* The total order of configurations the values of an entry are kept in.
ConfigRank(config) ==
    CASE config = DefaultConfig -> 0
      [] config = ConfigEn -> 1
      [] config = ConfigFrFR -> 2
      [] OTHER -> 3

\* A filter that lets every configuration through.
FilterMatchAll(filter, config) == TRUE

\* AxisConfigFilter::match: a configuration that names a locale passes only
\* when the filter holds that locale; the other axes are not filtered on.
FilterMatch(filter, config) ==
    config.locale = "" \/ config.locale \in filter.locales

(***************************************************************************)
(* Values                                                                  *)
(***************************************************************************)

NoFile == "<none>"

\* A value: its kind, its 32-bit data word (as hexadecimal text), the path or
\* target it names, the file it is resolved to, and whether it is weak.

MakeValue(kind, data, path, file, weak) ==
    [kind |-> kind, data |-> data, path |-> path, file |-> file, weak |-> weak]

\* Id: the placeholder value, weak.
IdValue == MakeValue("Id", "", "", NoFile, TRUE)
\* ResourceUtils::tryParseBool("true") and ("false").
BoolTrue == MakeValue("BinaryPrimitive", "0xffffffff", "", NoFile, FALSE)
BoolFalse == MakeValue("BinaryPrimitive", "0x00000000", "", NoFile, FALSE)
ReferenceTo(target) == MakeValue("Reference", "", target, NoFile, FALSE)
StyleableValue == MakeValue("Styleable", "", "", NoFile, FALSE)
\* The attribute a <declare-styleable> child declares by use: weak.
WeakAttribute == MakeValue("Attribute", "0x0000ffff", "", NoFile, TRUE)
FileReference(path, file) == MakeValue("FileReference", "", path, file, FALSE)

(***************************************************************************)
(* The resource table                                                      *)
(***************************************************************************)

Undefined == "kUndefined"
Public == "kPublic"
Private == "kPrivate"
SymbolStates == {Undefined, Public, Private}

ResourceName(package, type, entry) ==
    [package |-> package, type |-> type, entry |-> entry]

NewEntry(name) == [name |-> name, state |-> Undefined, values |-> <<>>]

HasEntry(t, name) == \E e \in t : e.name = name

\* ResourceTable::findResource: the entry of that exact name.
findResource(t, name) == CHOOSE e \in t : e.name = name

\* findOrCreatePackage / findOrCreateType / findOrCreateEntry.
findOrCreateEntry(t, name) ==
    IF HasEntry(t, name) THEN t ELSE t \cup {NewEntry(name)}

ReplaceEntry(t, e) == {x \in t : x.name # e.name} \cup {e}

\* Index of the value of an entry for a configuration, 0 when it has none.
RECURSIVE FindValueFrom(_, _, _)
FindValueFrom(values, config, i) ==
    IF i > Len(values) THEN 0
    ELSE IF values[i].config = config THEN i
    ELSE FindValueFrom(values, config, i + 1)

findValue(values, config) == FindValueFrom(values, config, 1)

\* Where a value for a new configuration goes: the values stay ordered.
RECURSIVE InsertPos(_, _, _)
InsertPos(values, config, i) ==
    IF i > Len(values) THEN i
    ELSE IF ConfigRank(values[i].config) >= ConfigRank(config) THEN i
    ELSE InsertPos(values, config, i + 1)

InsertValue(values, config, value) ==
    LET p == InsertPos(values, config, 1)
    IN  SubSeq(values, 1, p - 1) \o <<[config |-> config, value |-> value]>>
            \o SubSeq(values, p, Len(values))

\* A value added at the end whatever the entry holds.
SetValueAppending(values, config, value) ==
    values \o <<[config |-> config, value |-> value]>>

\* findOrCreateValue followed by the assignment of the value.
SetValue(values, config, value) ==
    LET i == findValue(values, config)
    IN  IF i = 0 THEN InsertValue(values, config, value)
        ELSE [values EXCEPT ![i] = [config |-> config, value |-> value]]

HasValue(t, name, config) ==
    HasEntry(t, name) /\ findValue(findResource(t, name).values, config) # 0

ValueOf(t, name, config) ==
    LET vs == findResource(t, name).values
    IN  vs[findValue(vs, config)].value

\* resolveValueCollision deciding on weakness alone.
resolveValueCollisionByWeakness(existing, incoming) ==
    IF incoming.weak THEN -1
    ELSE IF existing.weak THEN 1
    ELSE 0

\* ResourceTable::resolveValueCollision: -1 keeps the existing value, 0 is a
\* collision that cannot be resolved, 1 takes the incoming value.
resolveValueCollision(existing, incoming) ==
    IF existing = incoming THEN -1
    ELSE IF incoming.weak THEN -1
    ELSE IF existing.weak THEN 1
    ELSE 0

\* ResourceTable::addResource. Yields the result and the table it leaves.
addResourceImpl(t, name, config, value) ==
    IF ~IsValidEntryName(name.entry) THEN [ok |-> FALSE, table |-> t]
    ELSE LET t1 == findOrCreateEntry(t, name)
             e == findResource(t1, name)
             i == findValue(e.values, config)
             put == ReplaceEntry(t1, [e EXCEPT !.values = SetValue(e.values, config, value)])
         IN  IF i = 0 THEN [ok |-> TRUE, table |-> put]
             ELSE LET c == resolveValueCollision(e.values[i].value, value)
                  IN  IF c > 0 THEN [ok |-> TRUE, table |-> put]
                      ELSE IF c = 0 THEN [ok |-> FALSE, table |-> t1]
                      ELSE [ok |-> TRUE, table |-> t1]

\* ResourceTable::setSymbolState. Yields the result and the table it leaves.
setSymbolStateImpl(t, name, state) ==
    IF ~IsValidEntryName(name.entry) THEN [ok |-> FALSE, table |-> t]
    ELSE LET t1 == findOrCreateEntry(t, name)
             e == findResource(t1, name)
         IN  IF e.state = Public /\ state # Public
             THEN [ok |-> FALSE, table |-> t1]
             ELSE [ok |-> TRUE, table |-> ReplaceEntry(t1, [e EXCEPT !.state = state])]

(***************************************************************************)
(* Parsed resources and their insertion                                    *)
(***************************************************************************)

NoState == "<no state>"
\* An absent value (a null std::unique_ptr<Value>).
NoValue == MakeValue("<no value>", "", "", NoFile, FALSE)

\* struct ParsedResource.
ParsedResource(name, config, symbolState, value, childResources) ==
    [name |-> name, config |-> config, symbolState |-> symbolState,
     value |-> value, childResources |-> childResources]

\* addResourcesToTable: the record's symbol state, then its value, then its
\* children; a failing child does not stop its siblings.
RECURSIVE addResourcesToTable(_, _)
RECURSIVE AddChildResources(_, _, _)
RECURSIVE AddChildResourcesUntilFailure(_, _, _)
\* The loop over the children ending at the first child that fails.
AddChildResourcesUntilFailure(t, children, i) ==
    IF i > Len(children) THEN [ok |-> TRUE, table |-> t]
    ELSE LET r == addResourcesToTable(t, children[i])
         IN  IF ~r.ok THEN [ok |-> FALSE, table |-> r.table]
             ELSE AddChildResourcesUntilFailure(r.table, children, i + 1)

AddChildResources(t, children, i) ==
    IF i > Len(children) THEN [ok |-> TRUE, table |-> t]
    ELSE LET r == addResourcesToTable(t, children[i])
             rest == AddChildResources(r.table, children, i + 1)
         IN  [ok |-> r.ok /\ rest.ok, table |-> rest.table]

\* addResourcesToTable with the result of setSymbolState left unread.
addResourcesToTableUnchecked(t, res) ==
    LET s == IF res.symbolState # NoState
             THEN setSymbolStateImpl(t, res.name, res.symbolState)
             ELSE [ok |-> TRUE, table |-> t]
        v == IF res.value # NoValue
             THEN addResourceImpl(s.table, res.name, res.config, res.value)
             ELSE [ok |-> TRUE, table |-> s.table]
    IN  IF ~v.ok THEN [ok |-> FALSE, table |-> v.table]
        ELSE AddChildResources(v.table, res.childResources, 1)

addResourcesToTable(t, res) ==
    LET s == IF res.symbolState # NoState
             THEN setSymbolStateImpl(t, res.name, res.symbolState)
             ELSE [ok |-> TRUE, table |-> t]
    IN  IF ~s.ok THEN [ok |-> FALSE, table |-> s.table]
        ELSE LET v == IF res.value # NoValue
                      THEN addResourceImpl(s.table, res.name, res.config, res.value)
                      ELSE [ok |-> TRUE, table |-> s.table]
             IN  IF ~v.ok THEN [ok |-> FALSE, table |-> v.table]
                 ELSE AddChildResources(v.table, res.childResources, 1)

\* ResourceParser::parsePublic: <public type= name=>; a public id is also the
\* definition of the id.
parsePublic(type, entry, config) ==
    ParsedResource(ResourceName("", type, entry), config, Public,
                   IF type = "id" THEN IdValue ELSE NoValue, <<>>)

\* ResourceParser::parseSymbol: <symbol> and <java-symbol>.
parseSymbol(type, entry, config) ==
    ParsedResource(ResourceName("", type, entry), config, Private, NoValue, <<>>)

\* ResourceParser::parseAddResource: <add-resource>.
parseAddResource(type, entry, config) ==
    ParsedResource(ResourceName("", type, entry), config, Undefined, NoValue, <<>>)

\* The record of one <attr> child of a <declare-styleable>: parseAttrImpl with
\* weak set, in the default configuration.
StyleableAttr(entry) ==
    ParsedResource(ResourceName("", "attr", entry), DefaultConfig, NoState,
                   WeakAttribute, <<>>)

\* ResourceParser::parseDeclareStyleable: the styleable, in the default
\* configuration whatever the file's, and one record per <attr> child.
parseDeclareStyleable(entry, attrs) ==
    ParsedResource(ResourceName("", "styleable", entry), DefaultConfig, Public,
                   StyleableValue, [i \in 1..Len(attrs) |-> StyleableAttr(attrs[i])])

(***************************************************************************)
(* The calls on the table                                                  *)
(***************************************************************************)

NoName == ResourceName("", "", "")

Call(op, name, config, value, state, src, file, ok) ==
    [op |-> op, name |-> name, config |-> config, value |-> value,
     state |-> state, src |-> src, file |-> file, ok |-> ok]

NoCall == Call("none", NoName, DefaultConfig, NoValue, NoState, "", NoFile, TRUE)

\* The names, configurations and values the calls are issued with.
TableTypes == {"bool", "id"}
TableEntries == {"foo", "a$b"}
TableNames == {ResourceName("", ty, en) : ty \in TableTypes, en \in TableEntries}
TableConfigs == {DefaultConfig, ConfigFrFR}
TableValues == {BoolTrue, BoolFalse, IdValue}
StyleableAttrs == {<<>>, <<"foo">>, <<"foo", "foo">>}

\* No document is being parsed.
NoParser == [document |-> <<>>, pos |-> 0, error |-> FALSE, diag |-> <<>>]

\* Neither the merger nor a parser at work is touched.
MergerUnchanged == UNCHANGED <<filesToMerge, mergedPackages, options, parser>>

\* What a call finds, kept for the statements about what it changes.
Remember == prev' = [table |-> table, filesToMerge |-> filesToMerge]

\* table.addResource(name, config, source, value, diag)
AddResource(name, config, value) ==
    /\ nops < MaxOps
    /\ LET r == addResourceImpl(table, name, config, value)
       IN  /\ table' = r.table
           /\ last' = Call("addResource", name, config, value, NoState, "", NoFile, r.ok)
    /\ nops' = nops + 1
    /\ Remember
    /\ MergerUnchanged

\* table.setSymbolState(name, id, source, state, diag)
SetSymbolState(name, state) ==
    /\ nops < MaxOps
    /\ LET r == setSymbolStateImpl(table, name, state)
       IN  /\ table' = r.table
           /\ last' = Call("setSymbolState", name, DefaultConfig, NoValue, state, "",
                           NoFile, r.ok)
    /\ nops' = nops + 1
    /\ Remember
    /\ MergerUnchanged

\* One top-level element of <resources> that parsed: parseResources hands its
\* record to addResourcesToTable.
InsertParsed(element, res) ==
    /\ nops < MaxOps
    /\ LET r == addResourcesToTable(table, res)
       IN  /\ table' = r.table
           /\ last' = Call(element, res.name, res.config, res.value, res.symbolState,
                           "", NoFile, r.ok)
    /\ nops' = nops + 1
    /\ Remember
    /\ MergerUnchanged

ParsePublic(type, entry) == InsertParsed("public", parsePublic(type, entry, DefaultConfig))

ParseSymbol(type, entry) == InsertParsed("symbol", parseSymbol(type, entry, DefaultConfig))

ParseAddResource(type, entry) ==
    InsertParsed("add-resource", parseAddResource(type, entry, DefaultConfig))

ParseDeclareStyleable(entry, attrs) ==
    InsertParsed("declare-styleable", parseDeclareStyleable(entry, attrs))

NoOptions == [autoAddOverlay |-> FALSE, filter |-> [set |-> FALSE, locales |-> {}]]

\* A fresh table that the parser and direct calls fill.
InitTable ==
    /\ table = {}
    /\ filesToMerge = {}
    /\ mergedPackages = {}
    /\ options = NoOptions
    /\ last = NoCall
    /\ prev = [table |-> {}, filesToMerge |-> {}]
    /\ nops = 0
    /\ parser = NoParser

NextTable ==
    \/ \E n \in TableNames, c \in TableConfigs, v \in TableValues : AddResource(n, c, v)
    \/ \E n \in TableNames, s \in SymbolStates : SetSymbolState(n, s)
    \/ \E ty \in TableTypes, en \in TableEntries : ParsePublic(ty, en)
    \/ \E ty \in TableTypes, en \in TableEntries : ParseSymbol(ty, en)
    \/ \E ty \in TableTypes, en \in TableEntries : ParseAddResource(ty, en)
    \/ \E en \in TableEntries, attrs \in StyleableAttrs : ParseDeclareStyleable(en, attrs)

SpecTable == InitTable /\ [][NextTable]_vars

(***************************************************************************)
(* File names of resources                                                 *)
(***************************************************************************)

\* struct ResourceFile: the name, configuration and source path of a file.
ResourceFile(name, config, source) ==
    [name |-> name, config |-> config, source |-> source]

\* buildResourceFileName with the directory named by the type alone.
buildResourceFileNameNoConfig(resFile, mangler) ==
    "res/" \o resFile.name.type \o "/"
        \o (IF mangler /\ shouldMangle(resFile.name.package)
            THEN mangleEntry(resFile.name.package, resFile.name.entry)
            ELSE resFile.name.entry)
        \o getExtension(resFile.source)

\* ResourceUtils::buildResourceFileName: res/<type>[-<config>]/<entry><ext>,
\* the entry mangled when a mangler is given and the package is to be mangled.
buildResourceFileName(resFile, mangler) ==
    "res/" \o resFile.name.type
        \o (IF resFile.config # DefaultConfig
            THEN "-" \o ConfigToString(resFile.config) ELSE "")
        \o "/"
        \o (IF mangler /\ shouldMangle(resFile.name.package)
            THEN mangleEntry(resFile.name.package, resFile.name.entry)
            ELSE resFile.name.entry)
        \o getExtension(resFile.source)

\* The path of a merged file left as the library has it.
cloneFile(package, path) == path

\* TableMerger::cloneAndMangleFile: the path with the entry part of its file
\* name (what precedes the first '.') mangled; the directories and the
\* extension stay.
cloneAndMangleFile(package, path) ==
    LET slash == LastIndexFrom(path, "/", Len(path))
        ext == getExtension(path)
        entry == SubSeq(path, slash + 1, Len(path) - Len(ext))
    IN  SubSeq(path, 1, slash) \o mangleEntry(package, entry) \o ext

(***************************************************************************)
(* The table merger                                                        *)
(***************************************************************************)

\* The state a merge works on and what it has found so far.
MergeState(t, files, ok) == [table |-> t, files |-> files, ok |-> ok]

FileKey(name, config) == [name |-> name, config |-> config]

\* mFilesToMerge[key] = FileToMerge{file, dstPath}
PutFile(files, name, config, file, dstPath) ==
    {f \in files : f.key # FileKey(name, config)}
        \cup {[key |-> FileKey(name, config), file |-> file, dstPath |-> dstPath]}

HasFile(files, name, config) == \E f \in files : f.key = FileKey(name, config)

FileOf(files, name, config) == CHOOSE f \in files : f.key = FileKey(name, config)

\* How a merge resolves the file of a FileReference: "none" (merge and
\* mergeOverlay take the reference as it is), "given" (mergeFile: the file
\* handed in) or "collection" (mergeAndMangle: the file of that path in the
\* collection, an error when it holds none).
FileCallback(mode, file, collection) ==
    [mode |-> mode, file |-> file, collection |-> collection]

\* mergeValue with an overlay held to the collision rule of a plain merge.
mergeValueByCollision(st, opts, srcPackage, dstName, cv, mangle, overlay, cb) ==
    IF opts.filter.set /\ ~FilterMatch(opts.filter, cv.config)
    THEN st
    ELSE
    LET e == findResource(st.table, dstName)
        i == findValue(e.values, cv.config)
        isFile == cv.value.kind = "FileReference"
        newPath == IF isFile /\ mangle
                   THEN cloneAndMangleFile(srcPackage, cv.value.path)
                   ELSE cv.value.path
        found == cb.mode # "collection" \/ cv.value.path \in cb.collection
        file == CASE cb.mode = "given" -> cb.file
                  [] cb.mode = "collection" -> cv.value.path
                  [] OTHER -> cv.value.file
        newValue == IF isFile THEN FileReference(newPath, file) ELSE cv.value
        c == IF i = 0 THEN 1
             ELSE resolveValueCollision(e.values[i].value, newValue)
        put == ReplaceEntry(st.table,
                   [e EXCEPT !.values = SetValue(e.values, cv.config, newValue)])
    IN  IF c = 0 THEN MergeState(st.table, st.files, FALSE)
        ELSE IF c < 0 THEN st
        ELSE IF isFile /\ ~found THEN MergeState(st.table, st.files, FALSE)
        ELSE MergeState(put,
                 IF isFile /\ cb.mode # "none"
                 THEN PutFile(st.files, dstName, cv.config, file, newPath)
                 ELSE st.files,
                 st.ok)

\* One value of a source entry merged into the destination entry dstName.
mergeValue(st, opts, srcPackage, dstName, cv, mangle, overlay, cb) ==
    IF opts.filter.set /\ ~FilterMatch(opts.filter, cv.config)
    THEN st  \* the filter rejects the configuration: dropped
    ELSE
    LET e == findResource(st.table, dstName)
        i == findValue(e.values, cv.config)
        isFile == cv.value.kind = "FileReference"
        newPath == IF isFile /\ mangle
                   THEN cloneAndMangleFile(srcPackage, cv.value.path)
                   ELSE cv.value.path
        found == cb.mode # "collection" \/ cv.value.path \in cb.collection
        file == CASE cb.mode = "given" -> cb.file
                  [] cb.mode = "collection" -> cv.value.path
                  [] OTHER -> cv.value.file
        newValue == IF isFile THEN FileReference(newPath, file) ELSE cv.value
        c == IF i = 0 THEN 1
             ELSE IF overlay THEN 1
             ELSE resolveValueCollision(e.values[i].value, newValue)
        put == ReplaceEntry(st.table,
                   [e EXCEPT !.values = SetValue(e.values, cv.config, newValue)])
    IN  IF c = 0 THEN MergeState(st.table, st.files, FALSE)
        ELSE IF c < 0 THEN st
        ELSE IF isFile /\ ~found THEN MergeState(st.table, st.files, FALSE)
        ELSE MergeState(put,
                 IF isFile /\ cb.mode # "none"
                 THEN PutFile(st.files, dstName, cv.config, file, newPath)
                 ELSE st.files,
                 st.ok)

RECURSIVE mergeValues(_, _, _, _, _, _, _, _, _)
mergeValues(st, opts, srcPackage, dstName, values, i, mangle, overlay, cb) ==
    IF i > Len(values) THEN st
    ELSE mergeValues(
             mergeValue(st, opts, srcPackage, dstName, values[i], mangle, overlay, cb),
             opts, srcPackage, dstName, values, i + 1, mangle, overlay, cb)

\* The symbol state of a source entry taken over: a Public destination stays.
mergeSymbolState(t, dstName, srcState) ==
    LET e == findResource(t, dstName)
    IN  IF srcState # Undefined /\ e.state # Public /\ e.state # srcState
        THEN ReplaceEntry(t, [e EXCEPT !.state = srcState])
        ELSE t

\* mergeEntry with every new name let in.
mergeEntryAllowingNew(st, opts, srcEntry, mangle, overlay, allowNew, cb) ==
    LET dstName == ResourceName(CompilationPackage, srcEntry.name.type,
                       IF mangle
                       THEN mangleEntry(srcEntry.name.package, srcEntry.name.entry)
                       ELSE srcEntry.name.entry)
        t1 == mergeSymbolState(findOrCreateEntry(st.table, dstName),
                               dstName, srcEntry.state)
    IN  mergeValues(MergeState(t1, st.files, st.ok), opts,
                    srcEntry.name.package, dstName, srcEntry.values, 1,
                    mangle, overlay, cb)

\* mergeEntry with an entry that holds no value taken as absent.
mergeEntryNeedingValue(st, opts, srcEntry, mangle, overlay, allowNew, cb) ==
    LET dstName == ResourceName(CompilationPackage, srcEntry.name.type,
                       IF mangle
                       THEN mangleEntry(srcEntry.name.package, srcEntry.name.entry)
                       ELSE srcEntry.name.entry)
        present == HasEntry(st.table, dstName)
                       /\ findResource(st.table, dstName).values # <<>>
    IN  IF ~present /\ ~allowNew
        THEN MergeState(st.table, st.files, FALSE)
        ELSE LET t1 == mergeSymbolState(findOrCreateEntry(st.table, dstName),
                                        dstName, srcEntry.state)
             IN  mergeValues(MergeState(t1, st.files, st.ok), opts,
                             srcEntry.name.package, dstName, srcEntry.values, 1,
                             mangle, overlay, cb)

\* One source entry merged: its destination entry is found, or created when
\* new resources are allowed; then its symbol state, then its values.
mergeEntry(st, opts, srcEntry, mangle, overlay, allowNew, cb) ==
    LET dstName == ResourceName(CompilationPackage, srcEntry.name.type,
                       IF mangle
                       THEN mangleEntry(srcEntry.name.package, srcEntry.name.entry)
                       ELSE srcEntry.name.entry)
    IN  IF ~HasEntry(st.table, dstName) /\ ~allowNew
        THEN MergeState(st.table, st.files, FALSE)
        ELSE LET t1 == mergeSymbolState(findOrCreateEntry(st.table, dstName),
                                        dstName, srcEntry.state)
             IN  mergeValues(MergeState(t1, st.files, st.ok), opts,
                             srcEntry.name.package, dstName, srcEntry.values, 1,
                             mangle, overlay, cb)

\* TableMerger::doMerge: every entry of the source package, one after the
\* other; an entry or value that fails does not stop the others. The entries
\* of one package have different names, so the order does not show.
RECURSIVE doMerge(_, _, _, _, _, _, _)
doMerge(st, opts, srcEntries, mangle, overlay, allowNew, cb) ==
    IF srcEntries = {} THEN st
    ELSE LET e == CHOOSE x \in srcEntries : TRUE
         IN  doMerge(mergeEntry(st, opts, e, mangle, overlay, allowNew, cb),
                     opts, srcEntries \ {e}, mangle, overlay, allowNew, cb)

\* TableMerger::mergeImpl: the packages named as the compilation package, or
\* not named at all, are merged; any other package is left out.
mergeImpl(st, opts, src, overlay, allowNew) ==
    doMerge(st, opts,
            {e \in src.entries : e.name.package \in {"", CompilationPackage}},
            FALSE, overlay, allowNew, FileCallback("none", NoFile, {}))

\* TableMerger::mergeAndMangle: the package of that name is merged, mangled
\* unless it is the compilation package, and recorded as merged.
mergeAndMangleImpl(st, opts, packageName, src, collection) ==
    doMerge(st, opts, {e \in src.entries : e.name.package = packageName},
            packageName # CompilationPackage, FALSE, TRUE,
            FileCallback("collection", NoFile, collection))

\* TableMerger::mergeFileImpl: a table of the one file reference, merged.
mergeFileImpl(st, opts, fileDesc, file, overlay) ==
    LET path == buildResourceFileName(fileDesc, FALSE)
        entry == [name |-> fileDesc.name, state |-> Undefined,
                  values |-> <<[config |-> fileDesc.config,
                                value |-> FileReference(path, NoFile)]>>]
    IN  doMerge(st, opts, {entry}, FALSE, overlay, TRUE,
                FileCallback("given", file, {}))

(***************************************************************************)
(* The tables, files and calls the merger is driven with                   *)
(***************************************************************************)

\* test::ResourceTableBuilder: setPackageId, addValue, setSymbolState.
SourceTable(packages, entries) == [packages |-> packages, entries |-> entries]

WithValue(t, name, config, value) == addResourceImpl(t, name, config, value).table

WithSymbolState(t, name, state) == setSymbolStateImpl(t, name, state).table

\* SimpleMerge: tableA and tableB.
SimpleTableA ==
    SourceTable({CompilationPackage},
        WithValue(WithValue(WithValue({},
            ResourceName(CompilationPackage, "id", "foo"), DefaultConfig,
                ReferenceTo("com.app.a:id/bar")),
            ResourceName(CompilationPackage, "id", "bar"), DefaultConfig,
                ReferenceTo("com.app.b:id/foo")),
            ResourceName(CompilationPackage, "styleable", "view"), DefaultConfig,
                StyleableValue))

SimpleTableB ==
    SourceTable({LibraryPackage},
        WithValue({}, ResourceName(LibraryPackage, "id", "foo"), DefaultConfig, IdValue))

\* MergeFileReferences: tableA and tableB, each with the file res/xml/file.xml.
FilesTableA ==
    SourceTable({CompilationPackage},
        WithValue({}, ResourceName(CompilationPackage, "xml", "file"), DefaultConfig,
                  FileReference("res/xml/file.xml", NoFile)))

FilesTableB ==
    SourceTable({LibraryPackage},
        WithValue({}, ResourceName(LibraryPackage, "xml", "file"), DefaultConfig,
                  FileReference("res/xml/file.xml", NoFile)))

\* OverrideResourceWithOverlay: base and overlay.
BaseTable ==
    SourceTable({""}, WithValue({}, ResourceName("", "bool", "foo"), DefaultConfig, BoolTrue))

OverlayTable ==
    SourceTable({""}, WithValue({}, ResourceName("", "bool", "foo"), DefaultConfig, BoolFalse))

\* MergeAddResourceFromOverlay: tableA, the name declared and given no value.
AddResourceTable ==
    SourceTable({""}, WithSymbolState({}, ResourceName("", "bool", "foo"), Undefined))

\* MergeAddResourceFromOverlayWithAutoAddOverlay: tableA, the package alone.
EmptyTable == SourceTable({""}, {})

\* An overlay of two names, one in two configurations, and an overlay whose
\* value is weak.
OverlayTwoTable ==
    SourceTable({""},
        WithValue(WithValue(WithValue({},
            ResourceName("", "bool", "foo"), DefaultConfig, BoolFalse),
            ResourceName("", "bool", "foo"), ConfigFrFR, BoolFalse),
            ResourceName("", "bool", "bar"), DefaultConfig, BoolTrue))

OverlayWeakTable ==
    SourceTable({""}, WithValue({}, ResourceName("", "id", "foo"), DefaultConfig, IdValue))

SourceOf(id) ==
    CASE id = "SimpleTableA" -> SimpleTableA
      [] id = "SimpleTableB" -> SimpleTableB
      [] id = "FilesTableA" -> FilesTableA
      [] id = "FilesTableB" -> FilesTableB
      [] id = "BaseTable" -> BaseTable
      [] id = "OverlayTable" -> OverlayTable
      [] id = "AddResourceTable" -> AddResourceTable
      [] id = "OverlayTwoTable" -> OverlayTwoTable
      [] id = "OverlayWeakTable" -> OverlayWeakTable
      [] OTHER -> EmptyTable

MergeSources == {"SimpleTableA", "FilesTableA", "BaseTable", "AddResourceTable", "EmptyTable"}
OverlaySources == {"OverlayTable", "OverlayTwoTable", "OverlayWeakTable"}
MangleSources == {"SimpleTableB", "FilesTableB"}

\* io::FileCollection: the paths inserted into it.
FileCollections == {{}, {"res/xml/file.xml"}}

\* The files handed to mergeFile (test::TestFile).
TestFiles == {"path/to/fileA.xml.flat", "path/to/fileB.xml.flat"}

\* The descriptors handed to mergeFile: MergeFile (a source under layout-hdpi,
\* parsed as hdpi-v4), MergeFileOverlay (no source set),
\* MergeAndStripResourcesNotMatchingFilter.
FileDescs ==
    {ResourceFile(ResourceName("", "layout", "main"), ConfigHdpiV4,
                  "res/layout-hdpi/main.xml"),
     ResourceFile(ResourceName("", "xml", "foo"), DefaultConfig, ""),
     ResourceFile(ResourceName(CompilationPackage, "layout", "main"), ConfigEn,
                  "res/layout-en/main.xml"),
     ResourceFile(ResourceName(CompilationPackage, "layout", "main"), ConfigFrFR,
                  "res/layout-fr-rFR/main.xml")}

\* The names the master table is called on directly.
MasterNames == {ResourceName(CompilationPackage, "bool", "foo")}
MasterValues == {BoolTrue, IdValue}

Merged(r) ==
    /\ table' = r.table
    /\ filesToMerge' = r.files
    /\ nops' = nops + 1
    /\ Remember
    /\ UNCHANGED <<options, parser>>

\* merger.merge(src, table)
Merge(id) ==
    /\ nops < MaxOps
    /\ LET r == mergeImpl(MergeState(table, filesToMerge, TRUE), options,
                          SourceOf(id), FALSE, TRUE)
       IN  /\ Merged(r)
           /\ last' = Call("merge", NoName, DefaultConfig, NoValue, NoState, id, NoFile, r.ok)
    /\ UNCHANGED mergedPackages

\* merger.mergeOverlay(src, table)
MergeOverlay(id) ==
    /\ nops < MaxOps
    /\ LET r == mergeImpl(MergeState(table, filesToMerge, TRUE), options,
                          SourceOf(id), TRUE, options.autoAddOverlay)
       IN  /\ Merged(r)
           /\ last' = Call("mergeOverlay", NoName, DefaultConfig, NoValue, NoState, id,
                           NoFile, r.ok)
    /\ UNCHANGED mergedPackages

\* merger.mergeAndMangle(src, packageName, table, collection)
MergeAndMangle(packageName, id, collection) ==
    /\ nops < MaxOps
    /\ LET r == mergeAndMangleImpl(MergeState(table, filesToMerge, TRUE), options,
                                   packageName, SourceOf(id), collection)
       IN  /\ Merged(r)
           /\ last' = Call("mergeAndMangle", ResourceName(packageName, "", ""),
                           DefaultConfig, NoValue, NoState, id, NoFile, r.ok)
    /\ mergedPackages' = IF packageName \in SourceOf(id).packages
                         THEN mergedPackages \cup {packageName}
                         ELSE mergedPackages

\* merger.mergeFile(fileDesc, file)
MergeFile(fileDesc, file) ==
    /\ nops < MaxOps
    /\ LET r == mergeFileImpl(MergeState(table, filesToMerge, TRUE), options,
                              fileDesc, file, FALSE)
       IN  /\ Merged(r)
           /\ last' = Call("mergeFile", fileDesc.name, fileDesc.config, NoValue, NoState,
                           fileDesc.source, file, r.ok)
    /\ UNCHANGED mergedPackages

\* merger.mergeFileOverlay(fileDesc, file)
MergeFileOverlay(fileDesc, file) ==
    /\ nops < MaxOps
    /\ LET r == mergeFileImpl(MergeState(table, filesToMerge, TRUE), options,
                              fileDesc, file, TRUE)
       IN  /\ Merged(r)
           /\ last' = Call("mergeFileOverlay", fileDesc.name, fileDesc.config, NoValue,
                           NoState, fileDesc.source, file, r.ok)
    /\ UNCHANGED mergedPackages

\* A merger over an empty master table, with the options it is constructed
\* with: autoAddOverlay or not, no filter or an AxisConfigFilter holding "en".
Init ==
    /\ table = {}
    /\ filesToMerge = {}
    /\ mergedPackages = {}
    /\ options \in {[autoAddOverlay |-> a, filter |-> f] :
                       a \in BOOLEAN,
                       f \in {[set |-> FALSE, locales |-> {}],
                              [set |-> TRUE, locales |-> {"en"}]}}
    /\ last = NoCall
    /\ prev = [table |-> {}, filesToMerge |-> {}]
    /\ nops = 0
    /\ parser = NoParser

Next ==
    \/ \E id \in MergeSources : Merge(id)
    \/ \E id \in OverlaySources : MergeOverlay(id)
    \/ \E id \in MangleSources, c \in FileCollections : MergeAndMangle(LibraryPackage, id, c)
    \/ \E fd \in FileDescs, f \in TestFiles : MergeFile(fd, f)
    \/ \E fd \in FileDescs, f \in TestFiles : MergeFileOverlay(fd, f)
    \/ \E n \in MasterNames, c \in TableConfigs, v \in MasterValues : AddResource(n, c, v)
    \/ \E n \in MasterNames, st \in SymbolStates : SetSymbolState(n, st)

Spec == Init /\ [][Next]_vars

(***************************************************************************)
(* Properties of the resource table                                        *)
(***************************************************************************)

StateOf(t, name) == findResource(t, name).state

WasPublic(name) == HasEntry(prev.table, name) /\ StateOf(prev.table, name) = Public

\* The calls that carry a symbol state: setSymbolState itself and the
\* elements the parser turns into one.
SymbolCalls == {"setSymbolState", "public", "symbol", "add-resource", "declare-styleable"}

\* C1: an entry that is Public before a call is Public after it, whatever the
\* call, and a call that asks for Private or Undefined on a Public entry
\* (setSymbolState, or the insertion of a <symbol> or <add-resource>) fails.
C1_PublicIsNeverDowngraded ==
    /\ \A e \in prev.table :
          e.state = Public => HasEntry(table, e.name) /\ StateOf(table, e.name) = Public
    /\ (last.op \in SymbolCalls /\ last.state \in {Private, Undefined} /\ WasPublic(last.name))
          => ~last.ok

C1_DowngradeRefused ==
    /\ last.op \in {"symbol", "add-resource", "setSymbolState"}
    /\ last.state \in {Private, Undefined}
    /\ WasPublic(last.name)
    /\ ~last.ok
    /\ StateOf(table, last.name) = Public

\* The last call added a value the entry already held for that configuration.
SameValueAgain ==
    /\ last.op = "addResource"
    /\ HasValue(prev.table, last.name, last.config)
    /\ ValueOf(prev.table, last.name, last.config) = last.value

SrcEntries(id, packages) == {e \in SourceOf(id).entries : e.name.package \in packages}

OwnPackages == {"", CompilationPackage}

\* The name an entry is merged under, as it is, and written out mangled.
Dst(name) == ResourceName(CompilationPackage, name.type, name.entry)

Mangled(name) ==
    ResourceName(CompilationPackage, name.type, name.package \o "$" \o name.entry)

\* What a source table carries: a value for a name and a configuration.
Carried(id, packages) ==
    UNION {{[name |-> Dst(e.name), config |-> e.values[i].config,
             value |-> e.values[i].value] : i \in 1..Len(e.values)} :
           e \in SrcEntries(id, packages)}

\* The names of a source table that the destination did not have.
NewNames(id) == {e.name : e \in {x \in SrcEntries(id, OwnPackages) :
                                     ~HasEntry(prev.table, Dst(x.name))}}

Names(t) == {e.name : e \in t}

Rejected(config) == options.filter.set /\ ~(config.locale \in {""} \cup options.filter.locales)

\* C2: a successful mergeAndMangle of package b leaves every entry b:T/E of
\* the source in the destination as a:T/b$E and reports b as merged; a
\* successful merge leaves every entry of its source as a:T/E; no entry of
\* the destination is ever named outside the compilation package, and no
\* call takes away or renames an entry the destination had.
C2_MergeAndMangle ==
    /\ \A e \in table : e.name.package = CompilationPackage
    /\ Names(prev.table) \subseteq Names(table)
    /\ (last.op = "merge" /\ last.ok)
          => \A e \in SrcEntries(last.src, OwnPackages) : HasEntry(table, Dst(e.name))
    /\ (last.op = "mergeAndMangle" /\ last.ok)
          => /\ last.name.package \in mergedPackages
             /\ \A e \in SrcEntries(last.src, {last.name.package}) :
                   /\ HasEntry(table, Mangled(e.name))
                   /\ ~HasEntry(table, e.name)

C2_SimpleMerge ==
    /\ last.op = "mergeAndMangle" /\ last.ok /\ last.src = "SimpleTableB"
    /\ HasEntry(table, ResourceName("com.app.a", "id", "foo"))
    /\ HasEntry(table, ResourceName("com.app.a", "id", "bar"))
    /\ HasEntry(table, ResourceName("com.app.a", "styleable", "view"))
    /\ HasEntry(table, ResourceName("com.app.a", "id", "com.app.b$foo"))
    /\ ~HasEntry(table, ResourceName("com.app.b", "id", "foo"))
    /\ "com.app.b" \in mergedPackages

\* The last call was a mergeOverlay of a table with a name new to the
\* destination.
OverlayWithNewName == last.op = "mergeOverlay" /\ NewNames(last.src) # {}

ValueCount(t, name, config) ==
    LET vs == findResource(t, name).values
    IN  Cardinality({i \in 1..Len(vs) : vs[i].config = config})

FileCount(files, name, config) ==
    Cardinality({f \in files : f.key = FileKey(name, config)})

\* A mergeOverlay fails for a new name it may not add, and for nothing else.
OverlayResult == last.ok <=> (options.autoAddOverlay \/ NewNames(last.src) = {})

C5_EntryWithoutValueIsPresent ==
    (/\ last.op = "mergeOverlay"
     /\ ~options.autoAddOverlay
     /\ \A e \in SrcEntries(last.src, OwnPackages) : HasEntry(prev.table, Dst(e.name)))
        => /\ last.ok
           /\ \A c \in Carried(last.src, OwnPackages) :
                 ~Rejected(c.config)
                     => /\ HasValue(table, c.name, c.config)
                        /\ ValueOf(table, c.name, c.config) = c.value

C5_OverlayOntoAddResource ==
    /\ last.op = "mergeOverlay" /\ last.src = "OverlayTable"
    /\ ~options.autoAddOverlay
    /\ HasEntry(prev.table, ResourceName("com.app.a", "bool", "foo"))
    /\ findResource(prev.table, ResourceName("com.app.a", "bool", "foo")).values = <<>>
    /\ last.ok
    /\ ValueOf(table, ResourceName("com.app.a", "bool", "foo"), DefaultConfig) = BoolFalse

\* Every value a table holds, with its name and configuration.
AllValues(t) ==
    UNION {{[name |-> e.name, config |-> e.values[i].config, value |-> e.values[i].value] :
                i \in 1..Len(e.values)} : e \in t}

\* The value a table holds for a name and a configuration, if any.
ValuesAt(t, name, config) ==
    {v \in AllValues(t) : v.name = name /\ v.config = config}

ExpectedSuffix(config) ==
    CASE config = ConfigHdpiV4 -> "-hdpi-v4"
      [] config = ConfigEn -> "-en"
      [] config = ConfigFrFR -> "-fr-rFR"
      [] OTHER -> ""

ExpectedPath(name, config, source) ==
    "res/" \o name.type \o ExpectedSuffix(config) \o "/" \o name.entry
        \o (IF source = "" THEN "" ELSE ".xml")

\* What a mergeFile is to leave: the reference, the descriptor and the path.
FileMerged ==
    LET name == Dst(last.name)
    IN  /\ HasValue(table, name, last.config)
        /\ HasFile(filesToMerge, name, last.config)
        /\ LET v == ValueOf(table, name, last.config)
               f == FileOf(filesToMerge, name, last.config)
           IN  /\ v.kind = "FileReference"
               /\ v.path = f.dstPath
               /\ f.file = last.file
               /\ v.path = ExpectedPath(last.name, last.config, last.src)

\* C7: after a successful mergeFile whose configuration the filter, if set,
\* accepts, the destination holds under the compilation package a
\* FileReference whose path is the dstPath of the descriptor that
\* getFilesToMerge holds for the key, the descriptor's file is the file
\* given, and the path is res/<type>[-<config>]/<entry><extension>.
C7_MergeFile ==
    (last.op = "mergeFile" /\ last.ok /\ ~Rejected(last.config)) => FileMerged

\* C7 as the specification words it: after every successful mergeFile.
C7_MergeFileAlways ==
    (last.op = "mergeFile" /\ last.ok) => FileMerged

C7_HdpiFile ==
    /\ last.op = "mergeFile" /\ last.ok /\ last.config = ConfigHdpiV4
    /\ last.src = "res/layout-hdpi/main.xml"
    /\ ValueOf(table, ResourceName("com.app.a", "layout", "main"), ConfigHdpiV4).path
           = "res/layout-hdpi-v4/main.xml"
    /\ FileOf(filesToMerge, ResourceName("com.app.a", "layout", "main"), ConfigHdpiV4).file
           = last.file

\* C8: after a successful mergeAndMangle of package b, a file b:T/E of the
\* source is in the destination as a FileReference a:T/b$E of path
\* res/T/b$E.xml, and getFilesToMerge holds for it the file of the original
\* path and the mangled path; a file a:xml/file of the compilation package
\* has its own path, unmangled.
C8_MangledFile ==
    /\ (last.op = "mergeAndMangle" /\ last.ok) =>
          \A e \in SrcEntries(last.src, {last.name.package}) :
              \A i \in 1..Len(e.values) :
                  e.values[i].value.kind = "FileReference" =>
                      LET name == Mangled(e.name)
                          config == e.values[i].config
                          path == "res/" \o e.name.type \o "/" \o e.name.package
                                      \o "$" \o e.name.entry \o ".xml"
                      IN  /\ HasValue(table, name, config)
                          /\ ValueOf(table, name, config).kind = "FileReference"
                          /\ ValueOf(table, name, config).path = path
                          /\ HasFile(filesToMerge, name, config)
                          /\ FileOf(filesToMerge, name, config).file = e.values[i].value.path
                          /\ FileOf(filesToMerge, name, config).dstPath = path
    /\ HasValue(table, ResourceName("com.app.a", "xml", "file"), DefaultConfig)
          => ValueOf(table, ResourceName("com.app.a", "xml", "file"), DefaultConfig).path
                 = "res/xml/file.xml"

C8_MergeFileReferences ==
    /\ last.op = "mergeAndMangle" /\ last.ok /\ last.src = "FilesTableB"
    /\ HasValue(table, ResourceName("com.app.a", "xml", "file"), DefaultConfig)
    /\ ValueOf(table, ResourceName("com.app.a", "xml", "com.app.b$file"), DefaultConfig).path
           = "res/xml/com.app.b$file.xml"
    /\ FileOf(filesToMerge, ResourceName("com.app.a", "xml", "com.app.b$file"),
              DefaultConfig).file = "res/xml/file.xml"

\* C10: an entry is the only one of its name and holds at most one value for
\* a configuration, after every call, failed or not; and after a failed call
\* that is not the last of the run a further call can be made.
C10_OneValuePerConfig ==
    /\ \A e1 \in table, e2 \in table : e1.name = e2.name => e1 = e2
    /\ \A e \in table :
          \A i \in 1..Len(e.values), j \in 1..Len(e.values) :
              e.values[i].config = e.values[j].config => i = j
    /\ (~last.ok /\ nops < MaxOps)
          => ENABLED (\E n \in MasterNames, st \in SymbolStates : SetSymbolState(n, st))

\* A second file for a key has been refused and the key still has one value.
C10_CollisionLeavesOneValue ==
    /\ ~last.ok /\ last.op = "mergeFile"
    /\ nops < MaxOps
    /\ HasValue(prev.table, Dst(last.name), last.config)
    /\ ValueCount(table, Dst(last.name), last.config) = 1
    /\ table = prev.table

(***************************************************************************)
(* 32-bit words                                                            *)
(***************************************************************************)

\* A uint32_t is written as its eight hexadecimal digits, most significant
\* first; shifts by whole digits and bitwise or act on the digits.
HexDigits == "0123456789abcdef"

DigitOf(n) == SubSeq(HexDigits, n + 1, n + 1)

NibbleOf(d) == IndexFrom(HexDigits, d, 1) - 1

RECURSIVE Zeros(_)
Zeros(n) == IF n <= 0 THEN "" ELSE "0" \o Zeros(n - 1)

\* The word of a small number.
Word(n) == Zeros(6) \o DigitOf(n \div 16) \o DigitOf(n % 16)

AllOnes == "ffffffff"

\* a | b on numbers below 2^bits.
RECURSIVE BitOr(_, _, _)
BitOr(a, b, bits) ==
    IF bits = 0 THEN 0
    ELSE (IF a % 2 = 1 \/ b % 2 = 1 THEN 1 ELSE 0)
             + 2 * BitOr(a \div 2, b \div 2, bits - 1)

\* x | y on words.
RECURSIVE WordOr(_, _)
WordOr(x, y) ==
    IF x = "" THEN ""
    ELSE DigitOf(BitOr(NibbleOf(Head(x)), NibbleOf(Head(y)), 4))
             \o WordOr(Tail(x), Tail(y))

\* x << k on words, k a multiple of 4: the digits that leave are lost.
WordShl(x, k) == SubSeq(x, k \div 4 + 1, 8) \o Zeros(k \div 4)

(***************************************************************************)
(* Typed value parsing (ResourceUtils)                                     *)
(***************************************************************************)

\* android::Res_value as a BinaryPrimitive: the data type and the data word.
BinaryPrimitive(dataType, data) ==
    [kind |-> "BinaryPrimitive", dataType |-> dataType, data |-> "0x" \o data,
     path |-> "", file |-> NoFile, weak |-> FALSE]

IsSpace(ch) == ch \in {" ", "\t", "\n"}

\* util::trimWhitespace: the text without its leading and trailing whitespace.
RECURSIVE trimLeft(_)
trimLeft(str) ==
    IF str # "" /\ IsSpace(SubSeq(str, 1, 1)) THEN trimLeft(SubSeq(str, 2, Len(str)))
    ELSE str

RECURSIVE trimRight(_)
trimRight(str) ==
    IF str # "" /\ IsSpace(SubSeq(str, Len(str), Len(str)))
    THEN trimRight(SubSeq(str, 1, Len(str) - 1))
    ELSE str

trimWhitespace(str) == trimRight(trimLeft(str))

\* parseHex: the value of a hexadecimal digit; any other character sets the
\* error and yields 0xffffffff.
parseHex(c) ==
    IF c \in {"0", "1", "2", "3", "4", "5", "6", "7", "8", "9"}
    THEN [value |-> Word(IndexFrom("0123456789", c, 1) - 1), error |-> FALSE]
    ELSE IF c \in {"a", "b", "c", "d", "e", "f"}
    THEN [value |-> Word(IndexFrom("abcdef", c, 1) - 1 + 10), error |-> FALSE]
    ELSE IF c \in {"A", "B", "C", "D", "E", "F"}
    THEN [value |-> Word(IndexFrom("ABCDEF", c, 1) - 1 + 10), error |-> FALSE]
    ELSE [value |-> AllOnes, error |-> TRUE]

\* value.data |= parseHex(start[i], &error) << shift, for each of the pairs
\* <<i, shift>> in turn (start[0] is the '#').
RECURSIVE OrDigits(_, _, _, _)
OrDigits(acc, colorStr, steps, k) ==
    IF k > Len(steps) THEN acc
    ELSE LET h == parseHex(SubSeq(colorStr, steps[k][1] + 1, steps[k][1] + 1))
         IN  OrDigits([data |-> WordOr(acc.data, WordShl(h.value, steps[k][2])),
                       error |-> acc.error \/ h.error],
                      colorStr, steps, k + 1)

\* tryParseColor with the alpha of the three digit form left at zero.
tryParseColorNoAlpha(str) ==
    LET colorStr == trimWhitespace(str)
        len == Len(colorStr)
        zero == [data |-> Word(0), error |-> FALSE]
        opaque == [data |-> "ff000000", error |-> FALSE]
        r == CASE len = 4 ->
                    OrDigits(zero, colorStr,
                        <<<<1, 20>>, <<1, 16>>, <<2, 12>>, <<2, 8>>, <<3, 4>>, <<3, 0>>>>, 1)
               [] len = 5 ->
                    OrDigits(zero, colorStr,
                        <<<<1, 28>>, <<1, 24>>, <<2, 20>>, <<2, 16>>,
                          <<3, 12>>, <<3, 8>>, <<4, 4>>, <<4, 0>>>>, 1)
               [] len = 7 ->
                    OrDigits(opaque, colorStr,
                        <<<<1, 20>>, <<2, 16>>, <<3, 12>>, <<4, 8>>, <<5, 4>>, <<6, 0>>>>, 1)
               [] len = 9 ->
                    OrDigits(zero, colorStr,
                        <<<<1, 28>>, <<2, 24>>, <<3, 20>>, <<4, 16>>,
                          <<5, 12>>, <<6, 8>>, <<7, 4>>, <<8, 0>>>>, 1)
               [] OTHER -> [data |-> Word(0), error |-> TRUE]
        dataType == CASE len = 4 -> "TYPE_INT_COLOR_RGB4"
                      [] len = 5 -> "TYPE_INT_COLOR_ARGB4"
                      [] len = 7 -> "TYPE_INT_COLOR_RGB8"
                      [] OTHER -> "TYPE_INT_COLOR_ARGB8"
    IN  IF len = 0 \/ SubSeq(colorStr, 1, 1) # "#" THEN NoValue
        ELSE IF len \notin {4, 5, 7, 9} THEN NoValue
        ELSE IF r.error THEN NoValue
        ELSE BinaryPrimitive(dataType, r.data)

\* ResourceUtils::tryParseColor.
tryParseColor(str) ==
    LET colorStr == trimWhitespace(str)
        len == Len(colorStr)
        zero == [data |-> Word(0), error |-> FALSE]
        opaque == [data |-> "ff000000", error |-> FALSE]
        r == CASE len = 4 ->
                    OrDigits(opaque, colorStr,
                        <<<<1, 20>>, <<1, 16>>, <<2, 12>>, <<2, 8>>, <<3, 4>>, <<3, 0>>>>, 1)
               [] len = 5 ->
                    OrDigits(zero, colorStr,
                        <<<<1, 28>>, <<1, 24>>, <<2, 20>>, <<2, 16>>,
                          <<3, 12>>, <<3, 8>>, <<4, 4>>, <<4, 0>>>>, 1)
               [] len = 7 ->
                    OrDigits(opaque, colorStr,
                        <<<<1, 20>>, <<2, 16>>, <<3, 12>>, <<4, 8>>, <<5, 4>>, <<6, 0>>>>, 1)
               [] len = 9 ->
                    OrDigits(zero, colorStr,
                        <<<<1, 28>>, <<2, 24>>, <<3, 20>>, <<4, 16>>,
                          <<5, 12>>, <<6, 8>>, <<7, 4>>, <<8, 0>>>>, 1)
               [] OTHER -> [data |-> Word(0), error |-> TRUE]
        dataType == CASE len = 4 -> "TYPE_INT_COLOR_RGB4"
                      [] len = 5 -> "TYPE_INT_COLOR_ARGB4"
                      [] len = 7 -> "TYPE_INT_COLOR_RGB8"
                      [] OTHER -> "TYPE_INT_COLOR_ARGB8"
    IN  IF len = 0 \/ SubSeq(colorStr, 1, 1) # "#" THEN NoValue
        ELSE IF len \notin {4, 5, 7, 9} THEN NoValue
        ELSE IF r.error THEN NoValue
        ELSE BinaryPrimitive(dataType, r.data)

\* util::tokenize(str, sep): the pieces between the separators, empty ones
\* included.
RECURSIVE tokenize(_, _)
tokenize(str, sep) ==
    LET i == IndexFrom(str, sep, 1)
    IN  IF i = 0 THEN <<str>>
        ELSE <<SubSeq(str, 1, i - 1)>> \o tokenize(SubSeq(str, i + 1, Len(str)), sep)

\* Attribute::Symbol: the reference that names the symbol, and its value.
AttributeSymbol(name, value) == [symbol |-> [name |-> name], value |-> value]

\* Index of the first symbol whose entry name is the text, 0 when none is.
RECURSIVE FindSymbol(_, _, _)
FindSymbol(symbols, text, i) ==
    IF i > Len(symbols) THEN 0
    ELSE IF text = symbols[i].symbol.name.entry THEN i
    ELSE FindSymbol(symbols, text, i + 1)

\* The loop of tryParseFlagSymbol over the parts, the flags gathered so far
\* in data; a part that names no symbol ends it without a value.
RECURSIVE OrFlags(_, _, _, _)
OrFlags(symbols, parts, k, data) ==
    IF k > Len(parts) THEN BinaryPrimitive("TYPE_INT_HEX", data)
    ELSE LET i == FindSymbol(symbols, trimWhitespace(parts[k]), 1)
         IN  IF i = 0 THEN NoValue
             ELSE OrFlags(symbols, parts, k + 1, WordOr(data, symbols[i].value))

\* The same loop with a part that names no symbol passed over.
RECURSIVE OrKnownFlags(_, _, _, _)
OrKnownFlags(symbols, parts, k, data) ==
    IF k > Len(parts) THEN BinaryPrimitive("TYPE_INT_HEX", data)
    ELSE LET i == FindSymbol(symbols, trimWhitespace(parts[k]), 1)
         IN  OrKnownFlags(symbols, parts, k + 1,
                 IF i = 0 THEN data ELSE WordOr(data, symbols[i].value))

\* tryParseFlagSymbol with unknown parts passed over.
tryParseFlagSymbolLenient(flagAttr, str) ==
    IF trimWhitespace(str) = "" THEN BinaryPrimitive("TYPE_INT_HEX", Word(0))
    ELSE OrKnownFlags(flagAttr.symbols, tokenize(str, "|"), 1, Word(0))

\* ResourceUtils::tryParseFlagSymbol.
tryParseFlagSymbol(flagAttr, str) ==
    IF trimWhitespace(str) = "" THEN BinaryPrimitive("TYPE_INT_HEX", Word(0))
    ELSE OrFlags(flagAttr.symbols, tokenize(str, "|"), 1, Word(0))

\* ResourceUtils::parseBool: "true", "false" or neither ("none").
parseBool(str) ==
    LET trimmedStr == trimWhitespace(str)
    IN  IF trimmedStr = "true" \/ trimmedStr = "TRUE" \/ trimmedStr = "True" THEN "true"
        ELSE IF trimmedStr = "false" \/ trimmedStr = "FALSE" \/ trimmedStr = "False"
        THEN "false"
        ELSE "none"

\* ResourceUtils::tryParseBool.
tryParseBool(str) ==
    LET maybeResult == parseBool(str)
    IN  IF maybeResult = "none" THEN NoValue
        ELSE BinaryPrimitive("TYPE_INT_BOOLEAN",
                 IF maybeResult = "true" THEN AllOnes ELSE Word(0))

\* ResourceUtils::tryParseNullOrEmpty: @null is a reference to nothing and
\* @empty the empty value (TYPE_NULL, DATA_NULL_EMPTY = 1).
tryParseNullOrEmpty(str) ==
    LET trimmedStr == trimWhitespace(str)
    IN  IF trimmedStr = "@null" THEN BinaryPrimitive("TYPE_REFERENCE", Word(0))
        ELSE IF trimmedStr = "@empty" THEN BinaryPrimitive("TYPE_NULL", Word(1))
        ELSE NoValue

\* The character of a text at a 0-based offset; past its end a StringPiece
\* of a whole string reads the terminator, which is none of the characters
\* looked for.
CharAt(str, offset) ==
    IF offset < Len(str) THEN SubSeq(str, offset + 1, offset + 1) ELSE ""

\* str.substr(offset, str.size() - offset)
SubstrFrom(str, offset) == SubSeq(str, offset + 1, Len(str))

\* The loop of extractResourceName from the character at current on.
RECURSIVE ExtractFrom(_, _, _)
ExtractFrom(str, current, st) ==
    IF current > Len(str)
    THEN [ok |-> ~(st.hasPackageSeparator /\ st.package = "")
                     /\ ~(st.hasTypeSeparator /\ st.type = ""),
          package |-> st.package, type |-> st.type,
          entry |-> SubSeq(str, st.start, Len(str))]
    ELSE LET ch == SubSeq(str, current, current)
         IN  IF st.type = "" /\ ch = "/"
             THEN ExtractFrom(str, current + 1,
                      [st EXCEPT !.hasTypeSeparator = TRUE,
                                 !.type = SubSeq(str, st.start, current - 1),
                                 !.start = current + 1])
             ELSE IF st.package = "" /\ ch = ":"
             THEN ExtractFrom(str, current + 1,
                      [st EXCEPT !.hasPackageSeparator = TRUE,
                                 !.package = SubSeq(str, st.start, current - 1),
                                 !.start = current + 1])
             ELSE ExtractFrom(str, current + 1, st)

\* ResourceUtils::extractResourceName: [package:]type/entry taken apart.
extractResourceName(str) ==
    ExtractFrom(str, 1, [hasPackageSeparator |-> FALSE, hasTypeSeparator |-> FALSE,
                         package |-> "", type |-> "", start |-> 1])

\* parseResourceType: the names of the resource types.
ResourceTypes ==
    {"anim", "animator", "array", "attr", "bool", "color", "dimen", "drawable",
     "fraction", "id", "integer", "interpolator", "layout", "menu", "mipmap",
     "plurals", "raw", "string", "style", "styleable", "transition", "xml"}

NoRef == [ok |-> FALSE]

\* ResourceUtils::parseResourceName.
parseResourceName(str) ==
    IF str = "" THEN NoRef
    ELSE LET priv == CharAt(str, 0) = "*"
             x == extractResourceName(SubstrFrom(str, IF priv THEN 1 ELSE 0))
         IN  IF ~x.ok THEN NoRef
             ELSE IF x.type \notin ResourceTypes THEN NoRef
             ELSE IF x.entry = "" THEN NoRef
             ELSE [ok |-> TRUE, name |-> ResourceName(x.package, x.type, x.entry),
                   private |-> priv]

\* ResourceUtils::parseReference: @[+][*][package:]type/entry.
parseReference(str) ==
    LET trimmedStr == trimWhitespace(str)
    IN  IF trimmedStr = "" THEN NoRef
        ELSE IF CharAt(trimmedStr, 0) # "@" THEN NoRef
        ELSE LET create == CharAt(trimmedStr, 1) = "+"
                 r == parseResourceName(SubstrFrom(trimmedStr, IF create THEN 2 ELSE 1))
             IN  IF ~r.ok THEN NoRef
                 ELSE IF create /\ r.private THEN NoRef
                 ELSE IF create /\ r.name.type # "id" THEN NoRef
                 ELSE [ok |-> TRUE, name |-> r.name, private |-> r.private,
                       create |-> create]

\* ResourceUtils::parseAttributeReference: ?[package:][attr/]entry.
parseAttributeReference(str) ==
    LET trimmedStr == trimWhitespace(str)
    IN  IF trimmedStr = "" THEN NoRef
        ELSE IF CharAt(trimmedStr, 0) # "?" THEN NoRef
        ELSE LET x == extractResourceName(SubstrFrom(trimmedStr, 1))
             IN  IF ~x.ok THEN NoRef
                 ELSE IF x.type # "" /\ x.type # "attr" THEN NoRef
                 ELSE IF x.entry = "" THEN NoRef
                 ELSE [ok |-> TRUE, name |-> ResourceName(x.package, "attr", x.entry)]

\* A Reference value: the name, resource or attribute, private or not.
Reference(name, referenceType, privateReference) ==
    [kind |-> "Reference", name |-> name, referenceType |-> referenceType,
     privateReference |-> privateReference, path |-> "", file |-> NoFile,
     weak |-> FALSE]

\* ResourceUtils::tryParseReference: the reference, and whether it asks for
\* its target to be created.
tryParseReference(str) ==
    LET r == parseReference(str)
        a == parseAttributeReference(str)
    IN  IF r.ok THEN [value |-> Reference(r.name, "kResource", r.private),
                      create |-> r.create]
        ELSE IF a.ok THEN [value |-> Reference(a.name, "kAttribute", FALSE),
                           create |-> FALSE]
        ELSE [value |-> NoValue, create |-> FALSE]

\* ResourceUtils::tryParseEnumSymbol.
tryParseEnumSymbol(enumAttr, str) ==
    LET i == FindSymbol(enumAttr.symbols, trimWhitespace(str), 1)
    IN  IF i = 0 THEN NoValue
        ELSE BinaryPrimitive("TYPE_INT_DEC", enumAttr.symbols[i].value)

IsDigit(ch) == ch \in {"0", "1", "2", "3", "4", "5", "6", "7", "8", "9"}

\* The number of leading characters of a text that are decimal digits.
RECURSIVE DigitRun(_)
DigitRun(str) ==
    IF str # "" /\ IsDigit(SubSeq(str, 1, 1)) THEN 1 + DigitRun(Tail(str)) ELSE 0

\* The value of a run of decimal digits.
RECURSIVE DecimalValue(_, _)
DecimalValue(str, acc) ==
    IF str = "" THEN acc
    ELSE DecimalValue(Tail(str), 10 * acc + (IndexFrom("0123456789", SubSeq(str, 1, 1), 1) - 1))

\* The word of a number below 2^31.
RECURSIVE NumberDigits(_, _)
NumberDigits(n, digits) ==
    IF digits = 0 THEN "" ELSE NumberDigits(n \div 16, digits - 1) \o DigitOf(n % 16)

NumberWord(n) == NumberDigits(n, 8)

\* Hexadecimal digits in lower case.
RECURSIVE HexLower(_)
HexLower(digits) ==
    IF digits = "" THEN ""
    ELSE SubSeq(parseHex(SubSeq(digits, 1, 1)).value, 8, 8) \o HexLower(Tail(digits))

\* android::ResTable::stringToInt as tryParseInt uses it: decimal digits make
\* a TYPE_INT_DEC, 0x and up to eight hexadecimal digits a TYPE_INT_HEX.
tryParseInt(str) ==
    LET text == trimWhitespace(str)
        digits == SubstrFrom(text, 2)
    IN  IF CharAt(text, 0) = "0" /\ CharAt(text, 1) = "x"
        THEN IF digits # "" /\ Len(digits) <= 8
                    /\ \A i \in 1..Len(digits) : ~parseHex(SubSeq(digits, i, i)).error
             THEN BinaryPrimitive("TYPE_INT_HEX",
                                  Zeros(8 - Len(digits)) \o HexLower(digits))
             ELSE NoValue
        ELSE IF text # "" /\ Len(text) <= 9 /\ DigitRun(text) = Len(text)
        THEN BinaryPrimitive("TYPE_INT_DEC", NumberWord(DecimalValue(text, 0)))
        ELSE NoValue

DimensionUnits == {"px", "dip", "dp", "sp", "pt", "in", "mm"}
FractionUnits == {"%", "%p"}

\* A number that is not a whole word: the literal is kept for its data.
FloatPrimitive(dataType, number, unit) ==
    [kind |-> "BinaryPrimitive", dataType |-> dataType,
     data |-> [number |-> number, unit |-> unit],
     path |-> "", file |-> NoFile, weak |-> FALSE]

\* android::ResTable::stringToFloat as tryParseFloat uses it: a decimal
\* number is a TYPE_FLOAT, with a unit of length a TYPE_DIMENSION and with
\* % or %p a TYPE_FRACTION.
tryParseFloat(str) ==
    LET text == trimWhitespace(str)
        whole == DigitRun(text)
        afterWhole == SubstrFrom(text, whole)
        frac == IF CharAt(afterWhole, 0) = "." THEN DigitRun(SubstrFrom(afterWhole, 1)) ELSE 0
        numberLen == IF frac > 0 THEN whole + 1 + frac ELSE whole
        number == SubSeq(text, 1, numberLen)
        unit == SubstrFrom(text, numberLen)
    IN  IF whole = 0 THEN NoValue
        ELSE IF unit = "" THEN FloatPrimitive("TYPE_FLOAT", number, unit)
        ELSE IF unit \in DimensionUnits THEN FloatPrimitive("TYPE_DIMENSION", number, unit)
        ELSE IF unit \in FractionUnits THEN FloatPrimitive("TYPE_FRACTION", number, unit)
        ELSE NoValue

\* ResourceUtils::androidTypeToAttributeTypeMask; a mask is the set of its bits.
androidTypeToAttributeTypeMask(type) ==
    CASE type \in {"TYPE_NULL", "TYPE_REFERENCE", "TYPE_ATTRIBUTE", "TYPE_DYNAMIC_REFERENCE"}
             -> {"TYPE_REFERENCE"}
      [] type = "TYPE_STRING" -> {"TYPE_STRING"}
      [] type = "TYPE_FLOAT" -> {"TYPE_FLOAT"}
      [] type = "TYPE_DIMENSION" -> {"TYPE_DIMENSION"}
      [] type = "TYPE_FRACTION" -> {"TYPE_FRACTION"}
      [] type \in {"TYPE_INT_DEC", "TYPE_INT_HEX"}
             -> {"TYPE_INTEGER", "TYPE_ENUM", "TYPE_FLAGS"}
      [] type = "TYPE_INT_BOOLEAN" -> {"TYPE_BOOLEAN"}
      [] type \in {"TYPE_INT_COLOR_ARGB8", "TYPE_INT_COLOR_RGB8",
                   "TYPE_INT_COLOR_ARGB4", "TYPE_INT_COLOR_RGB4"} -> {"TYPE_COLOR"}
      [] OTHER -> {}

\* An item and the names onCreateReference was called with.
Parsed(item, created) == [item |-> item, created |-> created]

\* tryParseItemForAttribute with the concrete type of a number not looked at.
tryParseItemForAttributeAnyFloat(value, typeMask) ==
    LET nullOrEmpty == tryParseNullOrEmpty(value)
        reference == tryParseReference(value)
        color == tryParseColor(value)
        boolean == tryParseBool(value)
        integer == tryParseInt(value)
        floatMask == {"TYPE_FLOAT", "TYPE_DIMENSION", "TYPE_FRACTION"}
        floatingPoint == tryParseFloat(value)
    IN  IF nullOrEmpty # NoValue THEN Parsed(nullOrEmpty, <<>>)
        ELSE IF reference.value # NoValue
        THEN Parsed(reference.value,
                    IF reference.create THEN <<reference.value.name>> ELSE <<>>)
        ELSE IF "TYPE_COLOR" \in typeMask /\ color # NoValue THEN Parsed(color, <<>>)
        ELSE IF "TYPE_BOOLEAN" \in typeMask /\ boolean # NoValue THEN Parsed(boolean, <<>>)
        ELSE IF "TYPE_INTEGER" \in typeMask /\ integer # NoValue THEN Parsed(integer, <<>>)
        ELSE IF typeMask \cap floatMask # {} /\ floatingPoint # NoValue
        THEN Parsed(floatingPoint, <<>>)
        ELSE Parsed(NoValue, <<>>)

\* ResourceUtils::tryParseItemForAttribute(value, typeMask, onCreateReference).
tryParseItemForAttribute(value, typeMask) ==
    LET nullOrEmpty == tryParseNullOrEmpty(value)
        reference == tryParseReference(value)
        color == tryParseColor(value)
        boolean == tryParseBool(value)
        integer == tryParseInt(value)
        floatMask == {"TYPE_FLOAT", "TYPE_DIMENSION", "TYPE_FRACTION"}
        floatingPoint == tryParseFloat(value)
    IN  IF nullOrEmpty # NoValue THEN Parsed(nullOrEmpty, <<>>)
        ELSE IF reference.value # NoValue
        THEN Parsed(reference.value,
                    IF reference.create THEN <<reference.value.name>> ELSE <<>>)
        ELSE IF "TYPE_COLOR" \in typeMask /\ color # NoValue THEN Parsed(color, <<>>)
        ELSE IF "TYPE_BOOLEAN" \in typeMask /\ boolean # NoValue THEN Parsed(boolean, <<>>)
        ELSE IF "TYPE_INTEGER" \in typeMask /\ integer # NoValue THEN Parsed(integer, <<>>)
        ELSE IF typeMask \cap floatMask # {} /\ floatingPoint # NoValue
                   /\ typeMask \cap androidTypeToAttributeTypeMask(floatingPoint.dataType) # {}
        THEN Parsed(floatingPoint, <<>>)
        ELSE Parsed(NoValue, <<>>)

\* ResourceUtils::tryParseItemForAttribute(str, attr, onCreateReference).
tryParseItemForAttr(str, attr) ==
    LET typeMask == attr.typeMask
        value == tryParseItemForAttribute(str, typeMask)
        enumValue == tryParseEnumSymbol(attr, str)
        flagValue == tryParseFlagSymbol(attr, str)
    IN  IF value.item # NoValue THEN value
        ELSE IF "TYPE_ENUM" \in typeMask /\ enumValue # NoValue THEN Parsed(enumValue, <<>>)
        ELSE IF "TYPE_FLAGS" \in typeMask /\ flagValue # NoValue THEN Parsed(flagValue, <<>>)
        ELSE Parsed(NoValue, <<>>)

(***************************************************************************)
(* XML documents and the resource parser (ResourceParser)                  *)
(***************************************************************************)

\* The nodes of a document: text, comments, and elements with their
\* attributes (name and value, in the order the pull parser hands them out)
\* and their children.
Text(text) == [node |-> "text", text |-> text]
Comment(text) == [node |-> "comment", text |-> text]
Attr(name, value) == [name |-> name, value |-> value]
Element(namespace, name, attrs, children) ==
    [node |-> "element", namespace |-> namespace, name |-> name, attrs |-> attrs,
     children |-> children]

sXliffNamespaceUri == "urn:oasis:names:tc:xliff:document:1.2"

\* The events XmlPullParser::next() yields while it walks a list of nodes.
RECURSIVE Events(_)
Events(nodes) ==
    IF nodes = <<>> THEN <<>>
    ELSE LET n == Head(nodes)
             own == CASE n.node = "text" -> <<[event |-> "kText", text |-> n.text]>>
                      [] n.node = "comment" -> <<[event |-> "kComment", text |-> n.text]>>
                      [] OTHER ->
                           <<[event |-> "kStartElement", namespace |-> n.namespace,
                              name |-> n.name, attrs |-> n.attrs]>>
                               \o Events(n.children)
                               \o <<[event |-> "kEndElement", namespace |-> n.namespace,
                                     name |-> n.name]>>
         IN  own \o Events(Tail(nodes))

\* xml::findNonEmptyAttribute: the value of the attribute, "" when the element
\* has none of that name or an empty one.
RECURSIVE findNonEmptyAttribute(_, _)
findNonEmptyAttribute(attrs, name) ==
    IF attrs = <<>> THEN ""
    ELSE IF Head(attrs).name = name THEN Head(attrs).value
    ELSE findNonEmptyAttribute(Tail(attrs), name)

\* A diagnostic handed to mDiag.
Diag(level, message) == [level |-> level, message |-> message]

\* A size_t between -2^31 and 2^31 - 1 as the uint32_t it is stored in: its
\* upper and its lower 16 bits.
Uint32(n) ==
    IF n >= 0 THEN [hi |-> n \div 65536, lo |-> n % 65536]
    ELSE [hi |-> 32768 + ((n + 2147483647 + 1) \div 65536),
          lo |-> (n + 2147483647 + 1) % 65536]

\* The name of the span an element makes: its name and its attributes.
RECURSIVE SpanName(_, _)
SpanName(name, attrs) ==
    IF attrs = <<>> THEN name
    ELSE SpanName(name \o ";" \o Head(attrs).name \o "=" \o Head(attrs).value, Tail(attrs))

\* The loop of flattenXmlSubtree from event i on. The texts here hold nothing
\* util::StringBuilder would change and stay far below the 2^32 characters at
\* which a span is refused; lastChar is builder.str().size() - 1 stored in a
\* uint32_t, which wraps for an empty builder.
RECURSIVE FlattenLoop(_, _, _)
FlattenLoop(events, i, st) ==
    IF i > Len(events) THEN st
    ELSE LET e == events[i]
         IN  CASE e.event = "kEndElement" ->
                    IF e.namespace # "" THEN FlattenLoop(events, i + 1, st)
                    ELSE IF st.depth - 1 = 0 THEN [st EXCEPT !.depth = 0]
                    ELSE LET top == st.spanStack[Len(st.spanStack)]
                             span == [top EXCEPT !.lastChar = Uint32(Len(st.builder) - 1)]
                         IN  FlattenLoop(events, i + 1,
                                 [st EXCEPT !.depth = st.depth - 1,
                                            !.spans = Append(st.spans, span),
                                            !.spanStack = SubSeq(st.spanStack, 1,
                                                                 Len(st.spanStack) - 1)])
               [] e.event = "kText" ->
                    FlattenLoop(events, i + 1,
                        [st EXCEPT !.raw = st.raw \o e.text,
                                   !.builder = st.builder \o e.text])
               [] e.event = "kStartElement" ->
                    IF e.namespace # ""
                    THEN FlattenLoop(events, i + 1,
                             IF e.namespace # sXliffNamespaceUri
                             THEN [st EXCEPT !.diag = Append(st.diag,
                                       Diag("warn", "skipping element '" \o e.name
                                            \o "' with unknown namespace '"
                                            \o e.namespace \o "'"))]
                             ELSE st)
                    ELSE FlattenLoop(events, i + 1,
                             [st EXCEPT !.depth = st.depth + 1,
                                        !.spanStack = Append(st.spanStack,
                                            [name |-> SpanName(e.name, e.attrs),
                                             firstChar |-> Uint32(Len(st.builder)),
                                             lastChar |-> Uint32(0)])])
               [] OTHER -> FlattenLoop(events, i + 1, st)

\* The end of the element the parser stands in, which ends the loop.
EndOfElement == [event |-> "kEndElement", namespace |-> "", name |-> ""]

FlattenStart ==
    [raw |-> "", builder |-> "", spans |-> <<>>, spanStack |-> <<>>, depth |-> 1,
     error |-> FALSE, diag |-> <<>>]

Flattened(st) ==
    [ok |-> ~st.error, raw |-> st.raw,
     styleString |-> [str |-> st.builder, spans |-> st.spans], diag |-> st.diag]

\* ResourceParser::flattenXmlSubtree on the children of the element the
\* parser stands in: the raw string, the style string with its spans, the
\* diagnostics, and whether it succeeded.
flattenXmlSubtree(children) ==
    Flattened(FlattenLoop(Events(children) \o <<EndOfElement>>, 1, FlattenStart))

\* The String, StyledString and RawString values parseXml makes.
String(str) ==
    [kind |-> "String", data |-> str, translateable |-> TRUE, path |-> "",
     file |-> NoFile, weak |-> FALSE]
StyledString(styleString) ==
    [kind |-> "StyledString", data |-> styleString, translateable |-> TRUE,
     path |-> "", file |-> NoFile, weak |-> FALSE]
RawString(str) ==
    [kind |-> "RawString", data |-> str, path |-> "", file |-> NoFile, weak |-> FALSE]

\* What parsing an item out of XML gives: the item, the names
\* onCreateReference put into the table on the way, and the diagnostics.
XmlItem(item, created, diag) == [item |-> item, created |-> created, diag |-> diag]

\* The end of parseXml: the item parsed out of the raw value, or else a
\* string where one is asked for, or else the raw string where it is allowed.
ProcessedItem(flat, processedItem, typeMask, allowRawValue) ==
    IF processedItem.item # NoValue
    THEN XmlItem(processedItem.item, processedItem.created, flat.diag)
    ELSE IF "TYPE_STRING" \in typeMask
    THEN XmlItem(String(flat.styleString.str), <<>>, flat.diag)
    ELSE IF allowRawValue THEN XmlItem(RawString(flat.raw), <<>>, flat.diag)
    ELSE XmlItem(NoValue, <<>>, flat.diag)

\* parseXml once the subtree is flattened: a flattened string with spans
\* can only be a StyledString.
ProcessFlattened(flat, typeMask, allowRawValue) ==
    IF ~flat.ok THEN XmlItem(NoValue, <<>>, flat.diag)
    ELSE IF flat.styleString.spans # <<>>
    THEN XmlItem(StyledString(flat.styleString), <<>>, flat.diag)
    ELSE ProcessedItem(flat, tryParseItemForAttribute(flat.raw, typeMask), typeMask,
                       allowRawValue)

\* ResourceParser::parseXml on the children of the element the parser stands
\* in. onCreateReference adds an Id for the name to the table at once: the
\* names are handed on in created, for the caller to add them in this order.
\* No namespace is declared in the documents here, so that
\* transformReferenceFromNamespace leaves a reference as it is.
parseXml(children, typeMask, allowRawValue) ==
    ProcessFlattened(flattenXmlSubtree(children), typeMask, allowRawValue)

\* What parsing an element gives: whether it succeeded, the ParsedResource,
\* the names already put into the table, and the diagnostics.
Outcome(ok, res, created, diag) ==
    [ok |-> ok, res |-> res, created |-> created, diag |-> diag]

NoResource == ParsedResource(NoName, DefaultConfig, NoState, NoValue, <<>>)

Failed(created, diag) == Outcome(FALSE, NoResource, created, diag)

\* xml::findAttribute for the boolean attributes of <string>: whether the
\* element has the attribute at all.
HasAttribute(attrs, name) == \E i \in 1..Len(attrs) : attrs[i].name = name

\* The number of % signs of a text.
RECURSIVE Percents(_)
Percents(str) ==
    IF str = "" THEN 0
    ELSE (IF SubSeq(str, 1, 1) = "%" THEN 1 ELSE 0) + Percents(Tail(str))

\* util::verifyJavaStringFormat: false for more than one substitution that
\* names no position.
verifyJavaStringFormat(str) == Percents(str) <= 1

\* The options of the parser: strings are translatable, and several
\* substitutions without position are a warning.
ParserOptions == [translatable |-> TRUE, errorOnPositionalArguments |-> FALSE]

\* The value of an attribute that is a boolean, and what it is without the
\* attribute: "true", "false", or "none" for a value that is no boolean.
BoolAttribute(attrs, name, default) ==
    IF HasAttribute(attrs, name) THEN parseBool(findNonEmptyAttribute(attrs, name))
    ELSE IF default THEN "true" ELSE "false"

MultipleSubstitutions == "multiple substitutions specified in non-positional format"

\* The end of parseString: the string parsed, its translateable flag set and
\* its format verified.
StringOutcome(xml, name, formatted, translateable) ==
    IF xml.item = NoValue
    THEN Failed(xml.created, Append(xml.diag, Diag("error", "not a valid string")))
    ELSE IF /\ xml.item.kind = "String"
            /\ formatted = "true" /\ translateable = "true"
            /\ ~verifyJavaStringFormat(xml.item.data)
    THEN IF ParserOptions.errorOnPositionalArguments
         THEN Failed(xml.created, Append(xml.diag, Diag("error", MultipleSubstitutions)))
         ELSE Outcome(TRUE,
                      ParsedResource(name, DefaultConfig, NoState,
                                     [xml.item EXCEPT !.translateable = TRUE], <<>>),
                      xml.created, Append(xml.diag, Diag("warn", MultipleSubstitutions)))
    ELSE Outcome(TRUE,
                 ParsedResource(name, DefaultConfig, NoState,
                                IF xml.item.kind \in {"String", "StyledString"}
                                THEN [xml.item EXCEPT
                                         !.translateable = (translateable = "true")]
                                ELSE xml.item, <<>>),
                 xml.created, xml.diag)

\* parseString once its two attributes are read.
StringWith(el, name, formatted, translateable) ==
    IF formatted = "none"
    THEN Failed(<<>>, <<Diag("error", "invalid value for 'formatted'. Must be a boolean")>>)
    ELSE IF translateable = "none"
    THEN Failed(<<>>, <<Diag("error",
                             "invalid value for 'translatable'. Must be a boolean")>>)
    ELSE StringOutcome(parseXml(el.children, {"TYPE_STRING"}, FALSE), name, formatted,
                       translateable)

\* ResourceParser::parseString.
parseString(el, name) ==
    StringWith(el, name, BoolAttribute(el.attrs, "formatted", TRUE),
               BoolAttribute(el.attrs, "translatable", ParserOptions.translatable))

\* The end of parseItem: the item parsed, or "invalid <type>".
ItemOutcome(xml, name) ==
    IF xml.item = NoValue
    THEN Failed(xml.created, Append(xml.diag, Diag("error", "invalid " \o name.type)))
    ELSE Outcome(TRUE, ParsedResource(name, DefaultConfig, NoState, xml.item, <<>>),
                 xml.created, xml.diag)

\* ResourceParser::parseItem.
parseItem(el, name, format) ==
    IF format = {"TYPE_STRING"} THEN parseString(el, name)
    ELSE ItemOutcome(parseXml(el.children, format, FALSE), name)

\* Plural: its values by quantity.
Quantities == {"zero", "one", "two", "few", "many", "other"}

Plural(values) ==
    [kind |-> "Plural", data |-> values, path |-> "", file |-> NoFile, weak |-> FALSE]

shouldIgnoreElement(namespace, name) ==
    namespace = "" /\ name \in {"skip", "eat-comment"}

\* The error flag of parsePlural set and a diagnostic added.
PluralError(st, message) ==
    [st EXCEPT !.error = TRUE, !.diag = Append(st.diag, Diag("error", message))]

\* The value parseXml made of an <item> stored under its quantity.
PluralValue(st, quantity, xml) ==
    [st EXCEPT !.values[quantity] = xml.item,
               !.error = st.error \/ xml.item = NoValue,
               !.created = st.created \o xml.created,
               !.diag = st.diag \o xml.diag]

\* One turn of the loop of parsePlural with a repeated quantity taking the
\* later value.
PluralItemTurnLastWins(st, n, quantity, trimmedQuantity) ==
    IF quantity = ""
    THEN PluralError(st, "<item> in <plurals> requires attribute 'quantity'")
    ELSE IF trimmedQuantity \notin Quantities
    THEN PluralError(st, "<item> in <plural> has invalid value '" \o trimmedQuantity
                             \o "' for attribute 'quantity'")
    ELSE PluralValue(st, trimmedQuantity, parseXml(n.children, {"TYPE_STRING"}, FALSE))

\* One turn of the loop of parsePlural, on an <item> whose quantity
\* attribute is trimmed. parseXml asked for a string has a value whenever
\* flattening succeeds, as it does for every text here, so that the
\* setSource on the value it returned always has a value to work on.
PluralItemTurn(st, n, quantity, trimmedQuantity) ==
    IF quantity = ""
    THEN PluralError(st, "<item> in <plurals> requires attribute 'quantity'")
    ELSE IF trimmedQuantity \notin Quantities
    THEN PluralError(st, "<item> in <plural> has invalid value '" \o trimmedQuantity
                             \o "' for attribute 'quantity'")
    ELSE IF st.values[trimmedQuantity] # NoValue
    THEN PluralError(st, "duplicate quantity '" \o trimmedQuantity \o "'")
    ELSE PluralValue(st, trimmedQuantity, parseXml(n.children, {"TYPE_STRING"}, FALSE))

\* One turn of the loop of parsePlural, on a child of <plurals>.
PluralTurn(st, n) ==
    IF n.node # "element" THEN st
    ELSE IF n.namespace = "" /\ n.name = "item"
    THEN PluralItemTurn(st, n, findNonEmptyAttribute(n.attrs, "quantity"),
                        trimWhitespace(findNonEmptyAttribute(n.attrs, "quantity")))
    ELSE IF ~shouldIgnoreElement(n.namespace, n.name)
    THEN PluralError(st, "unknown tag <" \o n.namespace \o ":" \o n.name \o ">")
    ELSE st

PluralStart ==
    [values |-> [q \in Quantities |-> NoValue], error |-> FALSE, created |-> <<>>,
     diag |-> <<>>]

\* The loop of parsePlural over the first i children of <plurals>.
RECURSIVE PluralLoop(_, _)
PluralLoop(children, i) ==
    IF i = 0 THEN PluralStart
    ELSE PluralTurn(PluralLoop(children, i - 1), children[i])

\* The end of parsePlural: the Plural, unless the error flag is set.
PluralOutcome(st, name) ==
    IF st.error THEN Failed(st.created, st.diag)
    ELSE Outcome(TRUE,
                 ParsedResource([name EXCEPT !.type = "plurals"], DefaultConfig, NoState,
                                Plural(st.values), <<>>),
                 st.created, st.diag)

\* ResourceParser::parsePlural.
parsePlural(el, name) == PluralOutcome(PluralLoop(el.children, Len(el.children)), name)

\* parseFormatType: the mask of one format word, empty for 0.
parseFormatType(piece) ==
    CASE piece = "reference" -> {"TYPE_REFERENCE"}
      [] piece = "string" -> {"TYPE_STRING"}
      [] piece = "integer" -> {"TYPE_INTEGER"}
      [] piece = "boolean" -> {"TYPE_BOOLEAN"}
      [] piece = "color" -> {"TYPE_COLOR"}
      [] piece = "float" -> {"TYPE_FLOAT"}
      [] piece = "dimension" -> {"TYPE_DIMENSION"}
      [] piece = "fraction" -> {"TYPE_FRACTION"}
      [] piece = "enum" -> {"TYPE_ENUM"}
      [] piece = "flags" -> {"TYPE_FLAGS"}
      [] OTHER -> {}

\* elToBagMap of parseResource: the elements that are bags.
BagElements ==
    {"add-resource", "array", "attr", "declare-styleable", "integer-array",
     "java-symbol", "plurals", "public", "public-group", "string-array", "style",
     "symbol"}

\* elToItemMap of parseResource: the resource type and the format of the
\* elements that are items.
ItemElements == {"bool", "color", "dimen", "drawable", "fraction", "integer", "string"}

elToItemMap(resourceType) ==
    CASE resourceType = "bool" -> [type |-> "bool", format |-> {"TYPE_BOOLEAN"}]
      [] resourceType = "color" -> [type |-> "color", format |-> {"TYPE_COLOR"}]
      [] resourceType = "dimen" ->
             [type |-> "dimen",
              format |-> {"TYPE_FLOAT", "TYPE_FRACTION", "TYPE_DIMENSION"}]
      [] resourceType = "drawable" -> [type |-> "drawable", format |-> {"TYPE_COLOR"}]
      [] resourceType = "fraction" ->
             [type |-> "fraction",
              format |-> {"TYPE_FLOAT", "TYPE_FRACTION", "TYPE_DIMENSION"}]
      [] resourceType = "integer" -> [type |-> "integer", format |-> {"TYPE_INTEGER"}]
      [] resourceType = "string" -> [type |-> "string", format |-> {"TYPE_STRING"}]

\* A format= that can add nothing to the format of the type.
ResourceFormatNarrowed(explicit, implicit) ==
    IF explicit # {} THEN explicit \cap implicit ELSE implicit

\* The format parseResource parses an item with: the one format= names when
\* there is one, the one of the type otherwise.
ResourceFormat(explicit, implicit) == IF explicit # {} THEN explicit ELSE implicit

MissingName(el) == Diag("error", "<" \o el.name \o "> missing 'name' attribute")

\* The end of parseResource for an element named by a resource type that is
\* neither an item nor a bag: what parseXml made of it as a reference.
TypedOutcome(xml, name) ==
    IF xml.item = NoValue
    THEN Failed(xml.created,
                Append(xml.diag,
                       Diag("error", "invalid value for type '" \o name.type
                                \o "'. Expected a reference")))
    ELSE Outcome(TRUE, ParsedResource(name, DefaultConfig, NoState, xml.item, <<>>),
                 xml.created, xml.diag)

\* parseResource once the type, the format and the name of the resource are
\* read off the element. Of the bags, the documents here hold <plurals>.
ResourceOf(el, resourceType, explicit, maybeName) ==
    IF resourceType = "id"
    THEN IF maybeName = "" THEN Failed(<<>>, <<MissingName(el)>>)
         ELSE Outcome(TRUE, ParsedResource(ResourceName("", "id", maybeName),
                                           DefaultConfig, NoState, IdValue, <<>>),
                      <<>>, <<>>)
    ELSE IF resourceType \in ItemElements
    THEN IF maybeName = "" THEN Failed(<<>>, <<MissingName(el)>>)
         ELSE parseItem(el, ResourceName("", elToItemMap(resourceType).type, maybeName),
                        ResourceFormat(explicit, elToItemMap(resourceType).format))
    ELSE IF resourceType = "plurals"
    THEN IF maybeName = "" THEN Failed(<<>>, <<MissingName(el)>>)
         ELSE parsePlural(el, ResourceName("", "", maybeName))
    ELSE IF resourceType \in ResourceTypes
    THEN IF maybeName = "" THEN Failed(<<>>, <<MissingName(el)>>)
         ELSE TypedOutcome(parseXml(el.children, {"TYPE_REFERENCE"}, FALSE),
                           ResourceName("", resourceType, maybeName))
    ELSE Failed(<<>>, <<Diag("warn", "unknown resource type '" \o el.name \o "'")>>)

\* parseResource on an <item>: its type and its format are attributes.
ItemResource(el, maybeType, maybeFormat) ==
    IF maybeType = ""
    THEN Failed(<<>>, <<Diag("error", "<item> must have a 'type' attribute")>>)
    ELSE IF maybeFormat # "" /\ parseFormatType(maybeFormat) = {}
    THEN Failed(<<>>, <<Diag("error", "'" \o maybeFormat \o "' is an invalid format")>>)
    ELSE ResourceOf(el, maybeType,
                    IF maybeFormat # "" THEN parseFormatType(maybeFormat) ELSE {},
                    findNonEmptyAttribute(el.attrs, "name"))

\* ResourceParser::parseResource on an element of <resources>.
parseResource(el) ==
    IF el.name = "item"
    THEN ItemResource(el, findNonEmptyAttribute(el.attrs, "type"),
                      findNonEmptyAttribute(el.attrs, "format"))
    ELSE ResourceOf(el, el.name, {}, findNonEmptyAttribute(el.attrs, "name"))

\* The addResource calls of onCreateReference, in the order they were made;
\* what they return is not looked at.
RECURSIVE AddCreated(_, _)
AddCreated(t, created) ==
    IF created = <<>> THEN t
    ELSE AddCreated(addResourceImpl(t, Head(created), DefaultConfig, IdValue).table,
                    Tail(created))

\* What one turn of the loop of parseResources does with a child of
\* <resources>: the table it leaves, whether it sets the error flag, its
\* diagnostics, and what became of the child.
Turn(t, error, diag, outcome) ==
    [table |-> t, error |-> error, diag |-> diag, outcome |-> outcome]

\* The end of a turn: what addResourcesToTable made of the parsed resource.
AddedTurn(added, diag) ==
    IF ~added.ok THEN Turn(added.table, TRUE, diag, "refused")
    ELSE Turn(added.table, FALSE, diag, "inserted")

\* A turn on an element parseResource was called on; t holds the Ids that
\* onCreateReference added while it parsed.
ParsedTurn(t, r) ==
    IF ~r.ok THEN Turn(t, TRUE, r.diag, "failed")
    ELSE AddedTurn(addResourcesToTable(t, r.res), r.diag)

ElementTurn(t, r) == ParsedTurn(AddCreated(t, r.created), r)

parseResourcesTurn(t, n) ==
    IF n.node = "comment" THEN Turn(t, FALSE, <<>>, "comment")
    ELSE IF n.node = "text"
    THEN IF trimWhitespace(n.text) # ""
         THEN Turn(t, TRUE, <<Diag("error", "plain text not allowed here")>>, "text")
         ELSE Turn(t, FALSE, <<>>, "skipped")
    ELSE IF n.namespace # "" THEN Turn(t, FALSE, <<>>, "skipped")
    ELSE IF n.name \in {"skip", "eat-comment"} THEN Turn(t, FALSE, <<>>, "skipped")
    ELSE ElementTurn(t, parseResource(n))

\* The error flag of parseResources after a turn: once set it stays set.
SetError(error, failed) == error \/ failed

\* The loop of parseResources ending at the first child that failed.
LoopEndsOnError(p) == p.error \/ p.pos >= Len(p.document)

\* The loop of parseResources ends when nextChildNode finds no further child
\* of <resources>.
LoopEnds(p) == p.pos >= Len(p.document)

\* parseFormatAttribute: the masks of the words between the bars joined, and
\* empty for 0 as soon as one word is no format.
RECURSIVE FormatMask(_, _)
FormatMask(parts, mask) ==
    IF parts = <<>> THEN mask
    ELSE IF parseFormatType(trimWhitespace(Head(parts))) = {} THEN {}
    ELSE FormatMask(Tail(parts), mask \cup parseFormatType(trimWhitespace(Head(parts))))

parseFormatAttribute(str) == FormatMask(tokenize(str, "|"), {})

\* xml::findAttribute: whether the element has the attribute, and its value.
RECURSIVE findAttribute(_, _)
findAttribute(attrs, name) ==
    IF attrs = <<>> THEN [found |-> FALSE, value |-> ""]
    ELSE IF Head(attrs).name = name THEN [found |-> TRUE, value |-> Head(attrs).value]
    ELSE findAttribute(Tail(attrs), name)

\* android::ResTable_map::TYPE_ANY, 0x0000ffff: every bit below the enum bit.
TypeAny ==
    {"TYPE_REFERENCE", "TYPE_STRING", "TYPE_INTEGER", "TYPE_BOOLEAN", "TYPE_COLOR",
     "TYPE_FLOAT", "TYPE_DIMENSION", "TYPE_FRACTION", "TYPE_BITS_8_TO_15"}

\* An Attribute value as parseAttrImpl makes it.
Attribute(weak, typeMask, symbols, minInt, maxInt) ==
    [kind |-> "Attribute", weak |-> weak, typeMask |-> typeMask, symbols |-> symbols,
     minInt |-> minInt, maxInt |-> maxInt]

\* ResourceParser::parseEnumOrFlagItem: the symbol of a child that has a name
\* and a whole number for its value.
parseEnumOrFlagItem(el, tag) ==
    IF findNonEmptyAttribute(el.attrs, "name") = ""
    THEN [ok |-> FALSE,
          diag |-> <<Diag("error", "no attribute 'name' found for tag <" \o tag \o ">")>>]
    ELSE IF findNonEmptyAttribute(el.attrs, "value") = ""
    THEN [ok |-> FALSE,
          diag |-> <<Diag("error", "no attribute 'value' found for tag <" \o tag \o ">")>>]
    ELSE IF tryParseInt(findNonEmptyAttribute(el.attrs, "value")) = NoValue
    THEN [ok |-> FALSE,
          diag |-> <<Diag("error", "invalid value '"
                                      \o findNonEmptyAttribute(el.attrs, "value")
                                      \o "' for <" \o tag \o ">; must be an integer")>>]
    ELSE [ok |-> TRUE, diag |-> <<>>,
          symbol |-> AttributeSymbol(
                         ResourceName("", "id", findNonEmptyAttribute(el.attrs, "name")),
                         tryParseInt(findNonEmptyAttribute(el.attrs, "value")).data)]

\* The set of symbols of parseAttrImpl, ordered by name: whether one of that
\* name is in it, and the set with a symbol put at its place.
HasSymbol(items, symbol) ==
    \E i \in 1..Len(items) : items[i].symbol.name = symbol.symbol.name

\* The order of strings, unit by unit; the units are those of names.
CharOrder == "$0123456789ABCDEFGHIJKLMNOPQRSTUVWXYZ_abcdefghijklmnopqrstuvwxyz"

CharCode(ch) ==
    IF \E i \in 1..Len(CharOrder) : SubSeq(CharOrder, i, i) = ch
    THEN CHOOSE i \in 1..Len(CharOrder) : SubSeq(CharOrder, i, i) = ch
    ELSE 0

RECURSIVE StringLess(_, _)
StringLess(a, b) ==
    IF b = "" THEN FALSE
    ELSE IF a = "" THEN TRUE
    ELSE IF SubSeq(a, 1, 1) # SubSeq(b, 1, 1)
    THEN CharCode(SubSeq(a, 1, 1)) < CharCode(SubSeq(b, 1, 1))
    ELSE StringLess(SubSeq(a, 2, Len(a)), SubSeq(b, 2, Len(b)))

NameBefore(a, b) ==
    \/ a.package # b.package /\ StringLess(a.package, b.package)
    \/ a.package = b.package /\ a.type = b.type /\ StringLess(a.entry, b.entry)

InsertSymbol(items, symbol) ==
    LET before == SelectSeq(items, LAMBDA x : NameBefore(x.symbol.name, symbol.symbol.name))
        after == SelectSeq(items, LAMBDA x : ~NameBefore(x.symbol.name, symbol.symbol.name))
    IN  before \o <<symbol>> \o after

AttrError(st, diag) == [st EXCEPT !.error = TRUE, !.diag = st.diag \o diag]

\* An enum or flag child whose kind the mask allows: the bit of its kind is
\* set, and its symbol, when it has one, becomes a child resource and an
\* item unless the name is taken.
AttrSymbolTurn(st, s, bit) ==
    IF ~s.ok THEN AttrError([st EXCEPT !.typeMask = st.typeMask \cup {bit}], s.diag)
    ELSE IF HasSymbol(st.items, s.symbol)
    THEN [st EXCEPT !.typeMask = st.typeMask \cup {bit},
                    !.childResources =
                        Append(st.childResources,
                               ParsedResource(s.symbol.symbol.name, DefaultConfig,
                                              NoState, IdValue, <<>>)),
                    !.error = TRUE,
                    !.diag = st.diag \o <<Diag("error", "duplicate symbol '"
                                                   \o s.symbol.symbol.name.entry \o "'"),
                                          Diag("note", "first defined here")>>]
    ELSE [st EXCEPT !.typeMask = st.typeMask \cup {bit},
                    !.childResources =
                        Append(st.childResources,
                               ParsedResource(s.symbol.symbol.name, DefaultConfig,
                                              NoState, IdValue, <<>>)),
                    !.items = InsertSymbol(st.items, s.symbol)]

\* One turn of the loop of parseAttrImpl over the children.
AttrTurn(st, child) ==
    IF child.node # "element" THEN st
    ELSE IF child.namespace = "" /\ child.name = "enum"
    THEN IF "TYPE_FLAGS" \in st.typeMask
         THEN AttrError(st, <<Diag("error",
                                   "can not define an <enum>; already defined a <flag>")>>)
         ELSE AttrSymbolTurn(st, parseEnumOrFlagItem(child, "enum"), "TYPE_ENUM")
    ELSE IF child.namespace = "" /\ child.name = "flag"
    THEN IF "TYPE_ENUM" \in st.typeMask
         THEN AttrError(st, <<Diag("error",
                                   "can not define a <flag>; already defined an <enum>")>>)
         ELSE AttrSymbolTurn(st, parseEnumOrFlagItem(child, "flag"), "TYPE_FLAGS")
    ELSE IF ~shouldIgnoreElement(child.namespace, child.name)
    THEN AttrError(st, <<Diag("error", ":" \o child.name \o ">")>>)
    ELSE st

RECURSIVE AttrLoop(_, _, _)
AttrLoop(typeMask, children, i) ==
    IF i = 0
    THEN [typeMask |-> typeMask, items |-> <<>>, childResources |-> <<>>,
          error |-> FALSE, diag |-> <<>>]
    ELSE AttrTurn(AttrLoop(typeMask, children, i - 1), children[i])

AttrFailed(childResources, diag) ==
    [ok |-> FALSE, value |-> NoValue, childResources |-> childResources, diag |-> diag]

\* The end of parseAttrImpl: failure when a child was in error, else the
\* Attribute with the mask, TYPE_ANY for an empty one.
AttrOutcome(st, weak, minInt, maxInt) ==
    IF st.error THEN AttrFailed(st.childResources, st.diag)
    ELSE [ok |-> TRUE,
          value |-> Attribute(weak, IF st.typeMask # {} THEN st.typeMask ELSE TypeAny,
                              st.items, minInt, maxInt),
          childResources |-> st.childResources, diag |-> st.diag]

\* The min= or max= of an attr: absent, or the whole number it holds.
AttrBound(attrs, name) ==
    IF ~findAttribute(attrs, name).found THEN [given |-> FALSE, ok |-> TRUE]
    ELSE IF trimWhitespace(findAttribute(attrs, name).value) # ""
            /\ tryParseInt(trimWhitespace(findAttribute(attrs, name).value)) # NoValue
    THEN [given |-> TRUE, ok |-> TRUE,
          value |-> tryParseInt(trimWhitespace(findAttribute(attrs, name).value)).data]
    ELSE [given |-> TRUE, ok |-> FALSE]

\* ResourceParser::parseAttrImpl after the format is read.
AttrWithMask(el, weak, typeMask, maybeMin, maybeMax) ==
    IF ~maybeMin.ok
    THEN AttrFailed(<<>>, <<Diag("error", "invalid 'min' value '"
                                   \o trimWhitespace(findAttribute(el.attrs, "min").value)
                                   \o "'")>>)
    ELSE IF ~maybeMax.ok
    THEN AttrFailed(<<>>, <<Diag("error", "invalid 'max' value '"
                                   \o trimWhitespace(findAttribute(el.attrs, "max").value)
                                   \o "'")>>)
    ELSE IF (maybeMin.given \/ maybeMax.given) /\ "TYPE_INTEGER" \notin typeMask
    THEN AttrFailed(<<>>, <<Diag("error",
                        "'min' and 'max' can only be used when format='integer'")>>)
    ELSE AttrOutcome(AttrLoop(typeMask, el.children, Len(el.children)), weak,
                     IF maybeMin.given THEN maybeMin.value ELSE "",
                     IF maybeMax.given THEN maybeMax.value ELSE "")

\* ResourceParser::parseAttrImpl.
parseAttrImpl(el, weak) ==
    IF findAttribute(el.attrs, "format").found
       /\ parseFormatAttribute(findAttribute(el.attrs, "format").value) = {}
    THEN AttrFailed(<<>>, <<Diag("error", "invalid attribute format '"
                                   \o findAttribute(el.attrs, "format").value \o "'")>>)
    ELSE AttrWithMask(el, weak,
                      IF findAttribute(el.attrs, "format").found
                      THEN parseFormatAttribute(findAttribute(el.attrs, "format").value)
                      ELSE {},
                      AttrBound(el.attrs, "min"), AttrBound(el.attrs, "max"))

\* A package as PrivateAttributeMover sees it: its attr type and its
\* private attr type, NoType for one it does not have; a type has its
\* symbol state and its entries in order.
NoType == [present |-> FALSE]

ResourceTableType(state, entries) ==
    [present |-> TRUE, symbolStatus |-> state, entries |-> entries]

ResourceEntry(name, state) == [name |-> name, symbolStatus |-> state]

ResourceTablePackage(name, attr, attrPrivate) ==
    [name |-> name, attr |-> attr, attrPrivate |-> attrPrivate]

\* The predicate Consume hands to move_if.
NotPublic(entry) == entry.symbolStatus # Public

\* The loop of move_if from first on: an entry to move is added to the
\* result, one to keep is moved up to new_end; the rest is erased at the end.
RECURSIVE MoveLoop(_, _, _, _)
MoveLoop(input, result, newEnd, first) ==
    IF first > Len(input)
    THEN [input |-> SubSeq(input, 1, newEnd - 1), result |-> result]
    ELSE IF NotPublic(input[first])
    THEN MoveLoop(input, Append(result, input[first]), newEnd, first + 1)
    ELSE MoveLoop([input EXCEPT ![newEnd] = input[first]], result, newEnd + 1, first + 1)

\* std::find_if: the first entry from i on to move, one past the end when
\* there is none.
RECURSIVE FindIf(_, _)
FindIf(input, i) ==
    IF i > Len(input) \/ NotPublic(input[i]) THEN i ELSE FindIf(input, i + 1)

\* move_if(input_container, back_inserter(result), pred).
move_if(input, result) ==
    IF FindIf(input, 1) > Len(input) THEN [input |-> input, result |-> result]
    ELSE MoveLoop(input, Append(result, input[FindIf(input, 1)]),
                  FindIf(input, 1), FindIf(input, 1) + 1)

\* ResourceTablePackage::FindOrCreateType(kAttrPrivate).
FindOrCreatePrivate(package) ==
    IF package.attrPrivate.present THEN package.attrPrivate
    ELSE ResourceTableType(Undefined, <<>>)

\* The package after its entries are moved.
MovedPackage(package, moved) ==
    [package EXCEPT !.attr.entries = moved.input,
                    !.attrPrivate = [FindOrCreatePrivate(package) EXCEPT
                                        !.entries = moved.result]]

\* PrivateAttributeMover::Consume from package i on: packages without an
\* attr type are passed over; the first that has one ends the loop, moved
\* when the type is Public. The CHECK aborts on a private attr type that
\* has entries.
RECURSIVE ConsumeFrom(_, _)
ConsumeFrom(packages, i) ==
    IF i > Len(packages) THEN [aborted |-> FALSE, ok |-> TRUE, packages |-> packages]
    ELSE IF ~packages[i].attr.present THEN ConsumeFrom(packages, i + 1)
    ELSE IF packages[i].attr.symbolStatus # Public
    THEN [aborted |-> FALSE, ok |-> TRUE, packages |-> packages]
    ELSE IF FindOrCreatePrivate(packages[i]).entries # <<>>
    THEN [aborted |-> TRUE, ok |-> FALSE, packages |-> packages]
    ELSE [aborted |-> FALSE, ok |-> TRUE,
          packages |-> [packages EXCEPT ![i] =
                           MovedPackage(packages[i],
                                        move_if(packages[i].attr.entries,
                                                FindOrCreatePrivate(packages[i]).entries))]]

Consume(packages) == ConsumeFrom(packages, 1)

\* The bytes of a string Utf8Iterator walks, by what utf32_from_utf8_at makes
\* of them: "a" a code point of one byte, "0" the NUL byte, "2" and "3" the
\* lead of a code point of two and of three bytes, read as such whatever
\* follows, "x" a byte that is refused.
Utf8Bytes == {"a", "0", "2", "3", "x"}

\* utf32_from_utf8_at(data, size, index, &next_index): -1 at the end and on a
\* byte that is refused, else the code point and the index after it.
utf32_from_utf8_at(str, index) ==
    IF index >= Len(str) THEN [result |-> -1, next_index |-> 0]
    ELSE CASE SubSeq(str, index + 1, index + 1) = "a" ->
                  [result |-> 97, next_index |-> index + 1]
           [] SubSeq(str, index + 1, index + 1) = "0" ->
                  [result |-> 0, next_index |-> index + 1]
           [] SubSeq(str, index + 1, index + 1) = "2" ->
                  [result |-> 233, next_index |-> index + 2]
           [] SubSeq(str, index + 1, index + 1) = "3" ->
                  [result |-> 8364, next_index |-> index + 3]
           [] OTHER -> [result |-> -1, next_index |-> 0]

\* Utf8Iterator::DoNext with the position left where it is.
DoNextInPlace(it) ==
    [it EXCEPT !.current_codepoint_ =
                   IF utf32_from_utf8_at(it.str_, it.next_pos_).result = -1 THEN 0
                   ELSE utf32_from_utf8_at(it.str_, it.next_pos_).result,
               !.read_at = it.next_pos_]

\* Utf8Iterator::DoNext; read_at is the index it decodes at.
DoNext(it) ==
    IF utf32_from_utf8_at(it.str_, it.next_pos_).result = -1
    THEN [it EXCEPT !.current_codepoint_ = 0, !.read_at = it.next_pos_]
    ELSE [it EXCEPT !.current_codepoint_ = utf32_from_utf8_at(it.str_, it.next_pos_).result,
                    !.next_pos_ = utf32_from_utf8_at(it.str_, it.next_pos_).next_index,
                    !.read_at = it.next_pos_]

\* Utf8Iterator::Utf8Iterator(str).
Utf8Iterator(str) ==
    DoNext([str_ |-> str, next_pos_ |-> 0, current_codepoint_ |-> 0, read_at |-> 0])

\* Utf8Iterator::HasNext.
HasNext(it) == it.current_codepoint_ # 0

\* Utf8Iterator::Next on a walk: the CHECK aborts on an iterator that is
\* exhausted, else the code point is handed out and the next one decoded.
\* calls counts the calls that passed the CHECK.
Utf8Next(st) ==
    IF ~HasNext(st.it) THEN [st EXCEPT !.aborted = TRUE]
    ELSE [st EXCEPT !.it = DoNext(st.it), !.calls = st.calls + 1,
                    !.result = st.it.current_codepoint_]

\* Utf8Iterator::Skip.
RECURSIVE Utf8Skip(_, _)
Utf8Skip(st, amount) ==
    IF amount > 0 /\ HasNext(st.it) THEN Utf8Skip(Utf8Next(st), amount - 1)
    ELSE st

\* An XmlNodeAction: its actions, each a function of the element that is
\* named here by what it returns, and the actions of the child elements by
\* their names.
XmlNodeAction(actions, map) == [actions |-> actions, map |-> map]

NoActions == [name \in {} |-> XmlNodeAction(<<>>, <<>>)]

\* What executing an action tree gives: the result, the diagnostics, and
\* the actions that were run with the names of their elements.
Executed(ok, diag, ran) == [ok |-> ok, diag |-> diag, ran |-> ran]

PrintElementToDiagMessage(el) ==
    "<" \o (IF el.namespace # "" THEN el.namespace \o ":" ELSE "") \o el.name \o ">"

UnknownElement(el) ==
    Diag("error", "unknown element " \o PrintElementToDiagMessage(el) \o " found")

\* The first loop of XmlNodeAction::Execute: every action is run, and a
\* false one sets the error.
RECURSIVE RunActions(_, _, _)
RunActions(actions, el, i) ==
    IF i = 0 THEN Executed(TRUE, <<>>, <<>>)
    ELSE LET r == RunActions(actions, el, i - 1)
         IN  Executed(r.ok /\ actions[i] = "true", r.diag,
                      Append(r.ran, <<el.name, actions[i]>>))

Then(r, q) == Executed(r.ok /\ q.ok, r.diag \o q.diag, r.ran \o q.ran)

\* XmlNodeAction::Execute: the actions, then the child elements in order, a
\* registered one executed in turn and any other an error under kWhitelist.
RECURSIVE NodeExecute(_, _, _)
RECURSIVE ExecuteChildren(_, _, _, _)
ExecuteChildren(policy, node, children, i) ==
    IF i = 0 THEN Executed(TRUE, <<>>, <<>>)
    ELSE IF children[i].node # "element"
    THEN ExecuteChildren(policy, node, children, i - 1)
    ELSE IF children[i].namespace = "" /\ children[i].name \in DOMAIN node.map
    THEN Then(ExecuteChildren(policy, node, children, i - 1),
              NodeExecute(policy, node.map[children[i].name], children[i]))
    ELSE IF policy = "kWhitelist"
    THEN Then(ExecuteChildren(policy, node, children, i - 1),
              Executed(FALSE, <<UnknownElement(children[i])>>, <<>>))
    ELSE ExecuteChildren(policy, node, children, i - 1)

NodeExecute(policy, node, el) ==
    Then(RunActions(node.actions, el, Len(node.actions)),
         ExecuteChildren(policy, node, el.children, Len(el.children)))

\* A document without a root element.
NoRoot == [node |-> "none"]

\* XmlActionExecutor::Execute that refuses a root it has no action for
\* under every policy.
ExecuteStrict(policy, map, doc) ==
    IF doc.root = NoRoot
    THEN Executed(FALSE, <<Diag("error", "no root XML tag found")>>, <<>>)
    ELSE IF doc.root.namespace = "" /\ doc.root.name \in DOMAIN map
    THEN NodeExecute(policy, map[doc.root.name], doc.root)
    ELSE Executed(FALSE, <<UnknownElement(doc.root)>>, <<>>)

\* XmlActionExecutor::Execute.
Execute(policy, map, doc) ==
    IF doc.root = NoRoot
    THEN IF policy = "kWhitelist"
         THEN Executed(FALSE, <<Diag("error", "no root XML tag found")>>, <<>>)
         ELSE Executed(TRUE, <<>>, <<>>)
    ELSE IF doc.root.namespace = "" /\ doc.root.name \in DOMAIN map
    THEN NodeExecute(policy, map[doc.root.name], doc.root)
    ELSE IF policy = "kWhitelist"
    THEN Executed(FALSE, <<UnknownElement(doc.root)>>, <<>>)
    ELSE Executed(TRUE, <<>>, <<>>)

\* ConfigDescription::Parse: the configuration a qualifier string names, for
\* the strings that name one.
ConfigParse(str) ==
    CASE str = "" -> [ok |-> TRUE, config |-> DefaultConfig]
      [] str = "en" -> [ok |-> TRUE, config |-> ConfigEn]
      [] str = "fr-rFR" -> [ok |-> TRUE, config |-> ConfigFrFR]
      [] str \in {"hdpi", "hdpi-v4"} -> [ok |-> TRUE, config |-> ConfigHdpiV4]
      [] OTHER -> [ok |-> FALSE, config |-> DefaultConfig]

\* ResourcePathData, with the lot of the file's compilation that its
\* contents decide.
ResourcePathData(source, dir, name, extension, configStr, config, compiles) ==
    [source |-> source, resource_dir |-> dir, name |-> name, extension |-> extension,
     config_str |-> configStr, config |-> config, compiles |-> compiles]

\* The directory part of a path with its configuration split off at the
\* first dash.
DirOf(dir) == IF IndexFrom(dir, "-", 1) = 0 THEN dir ELSE SubSeq(dir, 1, IndexFrom(dir, "-", 1) - 1)

ConfigStrOf(dir) ==
    IF IndexFrom(dir, "-", 1) = 0 THEN "" ELSE SubSeq(dir, IndexFrom(dir, "-", 1) + 1, Len(dir))

\* The file name split at its first dot.
NameOf(filename) ==
    IF IndexFrom(filename, ".", 1) = 0 THEN filename
    ELSE SubSeq(filename, 1, IndexFrom(filename, ".", 1) - 1)

ExtensionOf(filename) ==
    IF IndexFrom(filename, ".", 1) = 0 THEN ""
    ELSE SubSeq(filename, IndexFrom(filename, ".", 1) + 1, Len(filename))

\* ExtractResourcePathData once the path is split.
PathDataOf(path, parts, compiles) ==
    IF Len(parts) < 2 THEN [ok |-> FALSE, error |-> "bad resource path"]
    ELSE IF IndexFrom(parts[Len(parts) - 1], "-", 1) # 0
            /\ ~ConfigParse(ConfigStrOf(parts[Len(parts) - 1])).ok
    THEN [ok |-> FALSE,
          error |-> "invalid configuration '" \o ConfigStrOf(parts[Len(parts) - 1]) \o "'"]
    ELSE [ok |-> TRUE,
          data |-> ResourcePathData(
                       path, DirOf(parts[Len(parts) - 1]), NameOf(parts[Len(parts)]),
                       ExtensionOf(parts[Len(parts)]), ConfigStrOf(parts[Len(parts) - 1]),
                       IF IndexFrom(parts[Len(parts) - 1], "-", 1) = 0 THEN DefaultConfig
                       ELSE ConfigParse(ConfigStrOf(parts[Len(parts) - 1])).config,
                       compiles)]

\* ExtractResourcePathData(path, &error).
ExtractResourcePathData(path, compiles) == PathDataOf(path, tokenize(path, "/"), compiles)

\* The compilation the loop of Compile hands an input to, "" for a directory
\* that names no resource type.
CompilerOf(data) ==
    IF data.resource_dir = "values" THEN "CompileTable"
    ELSE IF data.resource_dir \notin ResourceTypes THEN ""
    ELSE IF data.resource_dir = "raw" THEN "CompileFile"
    ELSE IF data.extension = "xml" THEN "CompileXml"
    ELSE IF data.extension \in {"png", "9.png"} THEN "CompilePng"
    ELSE "CompileFile"

\* One turn of the loop of Compile over the inputs: the input is compiled,
\* and the error is set when that fails or no compilation takes it.
CompileTurn(run, data) ==
    [run EXCEPT !.processed = Append(run.processed,
                                     [source |-> data.source, by |-> CompilerOf(data),
                                      ok |-> CompilerOf(data) # "" /\ data.compiles]),
                !.diag = IF CompilerOf(data) = ""
                         THEN Append(run.diag, Diag("error", "invalid file path '"
                                                              \o data.source \o "'"))
                         ELSE run.diag,
                !.error = run.error \/ CompilerOf(data) = "" \/ ~data.compiles,
                !.i = run.i + 1]

\* The Resolver and what it looks names up in. The local table has a package
\* id and, for the one type of the names, a type id, and its entries by
\* name; an entry has an entry id and its values, each under its
\* configuration, in the order of the configurations. Ids are written in
\* hexadecimal, and one that is unset by the name of its constant.
kUnsetPackageId == "kUnsetPackageId"
kUnsetTypeId == "kUnsetTypeId"
kUnsetEntryId == "kUnsetEntryId"

NoLocalEntry == [present |-> FALSE]

LocalEntry(entryId, values) == [present |-> TRUE, entryId |-> entryId, values |-> values]

ConfigValue(config, value) == [config |-> config, value |-> value]

\* The names the Resolver is asked for.
ResolverNames == {"android:attr/foo", "app:attr/bar", "android:string/baz"}

\* The local table has entries for these.
LocalNames == {"android:attr/foo", "app:attr/bar"}

ResourceId(package, type, entry) == [package |-> package, type |-> type, entry |-> entry]

NoId == [package |-> "00", type |-> "00", entry |-> "0000"]

NoAttribute == [kind |-> "none"]

\* Resolver::Entry, and no Entry at all.
ResolverEntry(id, attr) == [found |-> TRUE, id |-> id, attr |-> attr]

NotResolved == [found |-> FALSE]

\* The pre-compiled source: android::ResTable::identifierForName, invalid
\* for a name it does not have, and the bag of an id, each item the
\* identifier of its key and its data.
ATTR_TYPE == "ATTR_TYPE"

identifierForName(name) ==
    CASE name = "android:attr/foo" -> ResourceId("01", "01", "0000")
      [] name = "android:string/baz" -> ResourceId("01", "02", "0000")
      [] OTHER -> NoId

lockBag(resId) ==
    IF resId = ResourceId("01", "01", "0000")
    THEN <<[ident |-> ATTR_TYPE, data |-> {"TYPE_ENUM"}],
           [ident |-> "android:id/one", data |-> "00000001"],
           [ident |-> "android:id/two", data |-> "00000002"]>>
    ELSE <<>>

Res_INTERNALID(ident) == ident = ATTR_TYPE

\* The loop of buildCacheEntry for the mask: the data of the last item whose
\* key is ATTR_TYPE, the empty mask without one.
RECURSIVE AttrTypeMask(_, _)
AttrTypeMask(bag, i) ==
    IF i = 0 THEN {}
    ELSE IF bag[i].ident = ATTR_TYPE THEN bag[i].data
    ELSE AttrTypeMask(bag, i - 1)

\* The loop of buildCacheEntry for the symbols: every item whose key is no
\* internal id, by the name of its key.
RECURSIVE BagSymbols(_, _)
BagSymbols(bag, i) ==
    IF i = 0 THEN <<>>
    ELSE IF Res_INTERNALID(bag[i].ident) THEN BagSymbols(bag, i - 1)
    ELSE Append(BagSymbols(bag, i - 1), AttributeSymbol(bag[i].ident, bag[i].data))

\* Resolver::buildCacheEntry: no entry for a name the source does not have,
\* else the id, and the Attribute when the id has a bag.
buildCacheEntry(name) ==
    IF identifierForName(name) = NoId THEN NotResolved
    ELSE IF Len(lockBag(identifierForName(name))) < 1
    THEN ResolverEntry(identifierForName(name), NoAttribute)
    ELSE ResolverEntry(
             identifierForName(name),
             Attribute(FALSE,
                       AttrTypeMask(lockBag(identifierForName(name)),
                                    Len(lockBag(identifierForName(name)))),
                       IF AttrTypeMask(lockBag(identifierForName(name)),
                                       Len(lockBag(identifierForName(name))))
                              \cap {"TYPE_ENUM", "TYPE_FLAGS"} # {}
                       THEN BagSymbols(lockBag(identifierForName(name)),
                                       Len(lockBag(identifierForName(name))))
                       ELSE <<>>,
                       "", ""))

\* The part of findAttribute for a name the local table has: the id when
\* the three ids are set, and the Attribute when the first value is one.
LocalResult(tbl, entry) ==
    ResolverEntry(
        IF tbl.packageId # kUnsetPackageId /\ tbl.typeId # kUnsetTypeId
           /\ entry.entryId # kUnsetEntryId
        THEN ResourceId(tbl.packageId, tbl.typeId, entry.entryId)
        ELSE NoId,
        IF entry.values # <<>> /\ entry.values[1].value.kind = "Attribute"
        THEN entry.values[1].value
        ELSE NoAttribute)

HasLocal(tbl, name) == name \in LocalNames /\ tbl.entries[name].present

\* Resolver::findAttribute that looks in the local table before the cache.
findAttributeTableFirst(r, name) ==
    IF HasLocal(r.mTable, name)
    THEN [result |-> LocalResult(r.mTable, r.mTable.entries[name]), mCache |-> r.mCache]
    ELSE IF r.mCache[name].found
    THEN [result |-> r.mCache[name], mCache |-> r.mCache]
    ELSE [result |-> buildCacheEntry(name),
          mCache |-> [r.mCache EXCEPT ![name] = buildCacheEntry(name)]]

\* Resolver::findAttribute: the result, and the cache after it.
findAttribute_Resolver(r, name) ==
    IF r.mCache[name].found
    THEN [result |-> r.mCache[name], mCache |-> r.mCache]
    ELSE IF HasLocal(r.mTable, name)
    THEN [result |-> LocalResult(r.mTable, r.mTable.entries[name]), mCache |-> r.mCache]
    ELSE [result |-> buildCacheEntry(name),
          mCache |-> [r.mCache EXCEPT ![name] = buildCacheEntry(name)]]

\* Resolver::findId: the id of what findAttribute finds.
findId(r, name) ==
    [result |-> IF findAttribute_Resolver(r, name).result.found
                THEN [found |-> TRUE, id |-> findAttribute_Resolver(r, name).result.id]
                ELSE NotResolved,
     mCache |-> findAttribute_Resolver(r, name).mCache]

\* The values of an entry with one more, the default configuration first.
WithConfigValue(values, cv) ==
    IF cv.config = DefaultConfig THEN <<cv>> \o values ELSE Append(values, cv)

\* The manifest and its fixer. An attribute of the manifest has a
\* namespace; the options hold the two defaults, each given or not.
kSchemaAndroid == "http://schemas.android.com/apk/res/android"

XmlAttribute(namespace, name, value) ==
    [namespace |-> namespace, name |-> name, value |-> value]

Nothing == [given |-> FALSE]

Just(value) == [given |-> TRUE, value |-> value]

ManifestFixerOptions(minSdkVersionDefault, targetSdkVersionDefault) ==
    [minSdkVersionDefault |-> minSdkVersionDefault,
     targetSdkVersionDefault |-> targetSdkVersionDefault]

\* xml::Element::findAttribute(ns, name): whether the element has it.
HasXmlAttribute(el, namespace, name) ==
    \E i \in 1..Len(el.attrs) : el.attrs[i].namespace = namespace /\ el.attrs[i].name = name

XmlAttributeValue(el, namespace, name) ==
    el.attrs[CHOOSE i \in 1..Len(el.attrs) :
                 /\ el.attrs[i].namespace = namespace /\ el.attrs[i].name = name
                 /\ \A j \in 1..(i - 1) :
                       ~(el.attrs[j].namespace = namespace /\ el.attrs[j].name = name)].value

\* The attribute added to an element that has none of that name, when its
\* default is given.
WithDefault(el, name, default) ==
    IF default.given /\ ~HasXmlAttribute(el, kSchemaAndroid, name)
    THEN [el EXCEPT !.attrs = Append(el.attrs,
                                     XmlAttribute(kSchemaAndroid, name, default.value))]
    ELSE el

\* The fix of a <uses-sdk> that puts the defaults over what is there.
fixUsesSdkOverwrite(el, opts) ==
    [el EXCEPT !.attrs =
        SelectSeq(el.attrs, LAMBDA a : ~(a.namespace = kSchemaAndroid
                                          /\ a.name \in {"minSdkVersion", "targetSdkVersion"}))
            \o (IF opts.minSdkVersionDefault.given
                THEN <<XmlAttribute(kSchemaAndroid, "minSdkVersion",
                                    opts.minSdkVersionDefault.value)>>
                ELSE <<>>)
            \o (IF opts.targetSdkVersionDefault.given
                THEN <<XmlAttribute(kSchemaAndroid, "targetSdkVersion",
                                    opts.targetSdkVersionDefault.value)>>
                ELSE <<>>)]

\* The fix of a <uses-sdk>: each of the two versions it does not name gets
\* its default.
fixUsesSdk(el, opts) ==
    WithDefault(WithDefault(el, "minSdkVersion", opts.minSdkVersionDefault),
                "targetSdkVersion", opts.targetSdkVersionDefault)

IsUsesSdk(node) == node.node = "element" /\ node.namespace = "" /\ node.name = "uses-sdk"

\* The package names the fixer takes.
ManifestPackages == {"android", "com.android", "com.android.google"}

\* ManifestFixer::consume: the root is to be a manifest without a namespace
\* and with a package; every <uses-sdk> under it is fixed, and one is added
\* when there is none and a default is given.
consume(opts, doc) ==
    IF doc.root = NoRoot \/ doc.root.namespace # "" \/ doc.root.name # "manifest"
    THEN [ok |-> FALSE, doc |-> doc]
    ELSE IF ~HasXmlAttribute(doc.root, "", "package")
            \/ XmlAttributeValue(doc.root, "", "package") \notin ManifestPackages
    THEN [ok |-> FALSE, doc |-> doc]
    ELSE [ok |-> TRUE,
          doc |-> [doc EXCEPT !.root.children =
                      [i \in 1..Len(doc.root.children) |->
                          IF IsUsesSdk(doc.root.children[i])
                          THEN fixUsesSdk(doc.root.children[i], opts)
                          ELSE doc.root.children[i]]
                        \o (IF (\A i \in 1..Len(doc.root.children) :
                                   ~IsUsesSdk(doc.root.children[i]))
                               /\ (opts.minSdkVersionDefault.given
                                      \/ opts.targetSdkVersionDefault.given)
                            THEN <<fixUsesSdk(Element("", "uses-sdk", <<>>, <<>>), opts)>>
                            ELSE <<>>)]]

(***************************************************************************)
(* Calls of the value parsers                                              *)
(***************************************************************************)

\* The longest run of digits a colour text is given.
MaxColorLen == 9

\* The digits the colour texts are made of, and a character that is none.
ColorPalette == "1aB9f0Ce"
NotHex == "g"

\* n digits of the palette from offset off on, the one at position bad (if
\* any) replaced by the character that is no digit.
RECURSIVE ColorDigits(_, _, _, _)
ColorDigits(n, off, bad, i) ==
    IF i > n THEN ""
    ELSE (IF i = bad THEN NotHex
          ELSE LET k == ((off + i - 1) % Len(ColorPalette)) + 1
               IN  SubSeq(ColorPalette, k, k))
             \o ColorDigits(n, off, bad, i + 1)

ColorTexts ==
    {"#abc", "#1abc", "#112233", "#11223344", "#ABC", "abc", "", "  ", "#"}
        \cup {lead \o sharp \o ColorDigits(n, off, bad, 1) \o trail :
                 lead \in {"", " "}, trail \in {"", " "}, sharp \in {"#", ""},
                 n \in 0..MaxColorLen, off \in {0, 3}, bad \in 0..MaxColorLen}

\* A function of ResourceUtils is called on a text that is given: the state
\* is the text, and then the call with its result; nothing else is touched.
NoTable ==
    /\ table = {}
    /\ filesToMerge = {}
    /\ mergedPackages = {}
    /\ options = NoOptions
    /\ prev = [table |-> {}, filesToMerge |-> {}]
    /\ nops = 0
    /\ parser = NoParser

ValueCall(call) ==
    /\ last.op = "text"
    /\ last' = call
    /\ UNCHANGED <<table, filesToMerge, mergedPackages, options, prev, nops, parser>>

\* ResourceUtils::tryParseColor(text)
TryParseColor ==
    ValueCall([op |-> "tryParseColor", text |-> last.text,
               result |-> tryParseColor(last.text)])

InitColor == NoTable /\ last \in {[op |-> "text", text |-> t] : t \in ColorTexts}

NextColor == TryParseColor

SpecColor == InitColor /\ [][NextColor]_vars

\* The number of parts a flag text is made of.
MaxFlagParts == 3

\* The attribute the flag texts are parsed against: a second symbol of the
\* name A is never the one found.
FlagAttr ==
    [symbols |-> <<AttributeSymbol(ResourceName("android", "id", "A"), "00000001"),
                   AttributeSymbol(ResourceName("android", "id", "B"), "00000002"),
                   AttributeSymbol(ResourceName("android", "id", "High"), "80000002"),
                   AttributeSymbol(ResourceName("android", "id", "A"), "00000040")>>]

FlagParts == {"A", "B", "High", "a", "C", "", " ", " A", "B "}

RECURSIVE PartLists(_)
PartLists(n) ==
    IF n = 0 THEN {<<>>}
    ELSE PartLists(n - 1)
             \cup {Append(l, part) : l \in {x \in PartLists(n - 1) : Len(x) = n - 1},
                                     part \in FlagParts}

\* The parts with '|' between them.
RECURSIVE JoinFlags(_)
JoinFlags(parts) ==
    IF parts = <<>> THEN ""
    ELSE IF Len(parts) = 1 THEN parts[1]
    ELSE parts[1] \o "|" \o JoinFlags(Tail(parts))

\* ResourceUtils::tryParseFlagSymbol(attr, text)
TryParseFlagSymbol ==
    ValueCall([op |-> "tryParseFlagSymbol", text |-> last.text, parts |-> last.parts,
               result |-> tryParseFlagSymbol(FlagAttr, last.text)])

InitFlag ==
    NoTable /\ last \in {[op |-> "text", text |-> JoinFlags(l), parts |-> l] :
                            l \in PartLists(MaxFlagParts)}

NextFlag == TryParseFlagSymbol

SpecFlag == InitFlag /\ [][NextFlag]_vars

UpperCase(ch) ==
    CASE ch = "t" -> "T" [] ch = "r" -> "R" [] ch = "u" -> "U" [] ch = "e" -> "E"
      [] ch = "f" -> "F" [] ch = "a" -> "A" [] ch = "l" -> "L" [] ch = "s" -> "S"
      [] OTHER -> ch

\* A word with each of its letters in either case.
RECURSIVE CaseVariants(_)
CaseVariants(word) ==
    IF word = "" THEN {""}
    ELSE LET ch == SubSeq(word, 1, 1)
         IN  {c \o rest : c \in {ch, UpperCase(ch)}, rest \in CaseVariants(Tail(word))}

BoolTexts ==
    {lead \o w \o trail :
        lead \in {"", " "}, trail \in {"", " "},
        w \in CaseVariants("true") \cup CaseVariants("false")
                 \cup {"", "1", "0", "yes", "truee", "tru", "t rue", "#fff"}}

\* ResourceUtils::tryParseBool(text)
TryParseBool ==
    ValueCall([op |-> "tryParseBool", text |-> last.text,
               result |-> tryParseBool(last.text)])

InitBool == NoTable /\ last \in {[op |-> "text", text |-> t] : t \in BoolTexts}

NextBool == TryParseBool

SpecBool == InitBool /\ [][NextBool]_vars

\* The type bits of an attribute's mask.
TypeBits ==
    {"TYPE_COLOR", "TYPE_BOOLEAN", "TYPE_INTEGER", "TYPE_FLOAT", "TYPE_DIMENSION",
     "TYPE_FRACTION", "TYPE_ENUM", "TYPE_FLAGS"}

\* The attribute the item texts are parsed against: among its symbols are
\* names that are also a number and a boolean.
ItemAttr(typeMask) ==
    [typeMask |-> typeMask,
     symbols |-> <<AttributeSymbol(ResourceName("android", "id", "A"), "00000001"),
                   AttributeSymbol(ResourceName("android", "id", "B"), "00000002"),
                   AttributeSymbol(ResourceName("android", "id", "12"), "00000004"),
                   AttributeSymbol(ResourceName("android", "id", "true"), "00000008")>>]

ItemTexts ==
    {"@null", "@empty", " @null ", "@id/foo", "@+id/foo", "?attr/bar", "@string/",
     "#fff", "#12345", "true", "tRuE", "12", "0x1F", "1.5", "1dp", "50%", "1xy",
     "foo", "A", "A|B", "A|foo", "12|true", ""}

\* ResourceUtils::tryParseItemForAttribute(text, typeMask, onCreateReference)
TryParseItemForAttribute ==
    ValueCall([op |-> "tryParseItemForAttribute", text |-> last.text,
               typeMask |-> last.typeMask,
               result |-> tryParseItemForAttribute(last.text, last.typeMask)])

\* ResourceUtils::tryParseItemForAttribute(text, attr, onCreateReference)
TryParseItemForAttr ==
    ValueCall([op |-> "tryParseItemForAttr", text |-> last.text,
               typeMask |-> last.typeMask,
               result |-> tryParseItemForAttr(last.text, ItemAttr(last.typeMask))])

InitItem ==
    NoTable /\ last \in {[op |-> "text", text |-> t, typeMask |-> m] :
                            t \in ItemTexts, m \in SUBSET TypeBits}

NextItem == TryParseItemForAttribute \/ TryParseItemForAttr

SpecItem == InitItem /\ [][NextItem]_vars

\* The contents of a string element: texts and elements of no namespace, of
\* the xliff namespace and of an unknown one, at most MaxNodes at the top.
MaxNodes == 2

UnknownNamespaceUri == "urn:unknown"

InnerContents ==
    {<<>>,
     <<Text("c")>>,
     <<Text("c"), Element("", "i", <<>>, <<Text("d")>>)>>,
     <<Element(UnknownNamespaceUri, "u", <<>>, <<Text("d")>>)>>}

ContentNodes ==
    {Text("a"), Text("b")}
        \cup {Element(ns, "g", <<>>, inner) :
                 ns \in {"", sXliffNamespaceUri, UnknownNamespaceUri},
                 inner \in InnerContents}

RECURSIVE Contents(_)
Contents(n) ==
    IF n = 0 THEN {<<>>}
    ELSE Contents(n - 1)
             \cup {Append(l, node) : l \in {x \in Contents(n - 1) : Len(x) = n - 1},
                                     node \in ContentNodes}

\* parser.flattenXmlSubtree(...) with the parser inside the element
FlattenXmlSubtree ==
    ValueCall([op |-> "flattenXmlSubtree", content |-> last.content,
               result |-> flattenXmlSubtree(last.content)])

InitFlatten ==
    NoTable /\ last \in {[op |-> "text", content |-> c] : c \in Contents(MaxNodes)}

NextFlatten == FlattenXmlSubtree

SpecFlatten == InitFlatten /\ [][NextFlatten]_vars

\* The elements parseResource is called on: <item> with a type, with or
\* without a format and a name, and elements named by a resource type.
ItemValueTexts == {"#fff", "12", "true", "1.5", "@id/bar", "hello"}

ItemAttrs(type, format, name) ==
    (IF type = "" THEN <<>> ELSE <<Attr("type", type)>>)
        \o (IF format = "" THEN <<>> ELSE <<Attr("format", format)>>)
        \o (IF name = "" THEN <<>> ELSE <<Attr("name", name)>>)

ItemResourceElements ==
    {Element("", "item", ItemAttrs(type, format, "foo"), <<Text(text)>>) :
        type \in {"integer", "color", "bool", "dimen", "string", "layout", ""},
        format \in {"", "color", "integer", "float", "string", "reference", "color|integer"},
        text \in ItemValueTexts}

TypedContents ==
    {<<Text("@layout/bar")>>, <<Text("@+id/bar")>>, <<Text("hello")>>, <<Text("@null")>>,
     <<Text("@empty")>>, <<>>, <<Element("", "b", <<>>, <<Text("hi")>>)>>,
     <<Text("@layout/"), Element(sXliffNamespaceUri, "g", <<>>, <<Text("bar")>>)>>}

TypedResourceElements ==
    {Element("", type, ItemAttrs("", "", name), content) :
        type \in {"layout", "xml", "integer", "id", "widget"},
        name \in {"", "foo"},
        content \in TypedContents}

\* parser.parseResource(...) with the parser on the element
ParseResource ==
    ValueCall([op |-> "parseResource", element |-> last.element,
               result |-> parseResource(last.element)])

InitResource ==
    NoTable /\ last \in {[op |-> "text", element |-> el] :
                            el \in ItemResourceElements \cup TypedResourceElements}

NextResource == ParseResource

SpecResource == InitResource /\ [][NextResource]_vars

\* The children of <resources> the documents are made of, at most
\* MaxChildren in one document.
MaxChildren == 2

Named(name) == <<Attr("name", name)>>

PluralItem(quantity, text) ==
    Element("", "item", <<Attr("quantity", quantity)>>, <<Text(text)>>)

ResourcesChildren ==
    {Element("", "string", Named("foo"), <<Text("hello")>>),
     Element("", "string", Named("foo"), <<Text("bye")>>),
     Element("", "integer", Named("foo"), <<Text("12")>>),
     Element("", "integer", Named("bar"), <<Text("x")>>),
     Element("", "integer", Named("baz"), <<Text("@+id/bar")>>),
     Element("", "id", Named("bar"), <<>>),
     Element("", "widget", Named("foo"), <<>>),
     Element("", "skip", <<>>, <<>>),
     Element(UnknownNamespaceUri, "string", Named("foo"), <<Text("hello")>>),
     Text("  "), Text("stray"), Comment("note"),
     Element("", "plurals", Named("p"),
             <<PluralItem("one", "x"), PluralItem("other", "z")>>),
     Element("", "plurals", Named("p"),
             <<PluralItem("one", "x"), PluralItem(" one ", "y"), PluralItem("other", "z")>>),
     Element("", "plurals", Named("p"),
             <<PluralItem("one", "@+id/bar"), PluralItem("one", "y")>>)}

RECURSIVE Documents(_)
Documents(n) ==
    IF n = 0 THEN {<<>>}
    ELSE Documents(n - 1)
             \cup {Append(l, node) : l \in {x \in Documents(n - 1) : Len(x) = n - 1},
                                     node \in ResourcesChildren}

\* What a turn of the loop of parseResources leaves behind.
Turned(n, turn) ==
    /\ table' = turn.table
    /\ parser' = [parser EXCEPT !.pos = parser.pos + 1,
                                !.error = SetError(parser.error, turn.error),
                                !.diag = parser.diag \o turn.diag]
    /\ last' = [op |-> "parseResources", node |-> n, outcome |-> turn.outcome,
                diag |-> turn.diag, outcomes |-> Append(last.outcomes, turn.outcome)]

\* One turn of the loop of parseResources, on the next child of <resources>.
ParseResources ==
    /\ last.op # "return"
    /\ ~LoopEnds(parser)
    /\ Turned(parser.document[parser.pos + 1],
              parseResourcesTurn(table, parser.document[parser.pos + 1]))
    /\ Remember
    /\ UNCHANGED <<filesToMerge, mergedPackages, options, nops>>

\* After its loop parseResources returns !error: no resource was stripped, so
\* that the check of the stripped resources finds nothing.
ParseResourcesReturn ==
    /\ last.op # "return"
    /\ LoopEnds(parser)
    /\ last' = [op |-> "return", result |-> ~parser.error, outcomes |-> last.outcomes]
    /\ UNCHANGED <<table, filesToMerge, mergedPackages, options, prev, nops, parser>>

InitResources ==
    /\ table = {}
    /\ filesToMerge = {}
    /\ mergedPackages = {}
    /\ options = NoOptions
    /\ prev = [table |-> {}, filesToMerge |-> {}]
    /\ nops = 0
    /\ last = [op |-> "parse", outcomes |-> <<>>]
    /\ parser \in {[document |-> d, pos |-> 0, error |-> FALSE, diag |-> <<>>] :
                      d \in Documents(MaxChildren)}

NextResources == ParseResources \/ ParseResourcesReturn

SpecResources == InitResources /\ [][NextResources]_vars

\* The records addResourcesToTable is called with: a parent with or without
\* a symbol state and a value, and at most MaxRecordChildren children, and
\* the tables it is called on.
MaxRecordChildren == 2

RecordChildren ==
    {ParsedResource(ResourceName("", "bool", "bar"), DefaultConfig, NoState, BoolTrue, <<>>),
     ParsedResource(ResourceName("", "bool", "a$b"), DefaultConfig, NoState, BoolTrue, <<>>),
     ParsedResource(ResourceName("", "bool", "foo"), DefaultConfig, Private, BoolFalse, <<>>)}

RECURSIVE ChildLists(_)
ChildLists(n) ==
    IF n = 0 THEN {<<>>}
    ELSE ChildLists(n - 1)
             \cup {Append(l, c) : l \in {x \in ChildLists(n - 1) : Len(x) = n - 1},
                                  c \in RecordChildren}

Records ==
    {ParsedResource(ResourceName("", "bool", entry), DefaultConfig, state, value, children) :
        entry \in {"foo", "a$b"}, state \in {NoState, Public, Private},
        value \in {NoValue, BoolTrue, BoolFalse},
        children \in ChildLists(MaxRecordChildren)}

RecordTables ==
    {{},
     addResourceImpl({}, ResourceName("", "bool", "foo"), DefaultConfig, BoolTrue).table,
     setSymbolStateImpl({}, ResourceName("", "bool", "foo"), Public).table}

\* addResourcesToTable(table, diag, res)
AddResourcesToTable ==
    /\ last.op = "record"
    /\ table' = addResourcesToTable(table, last.res).table
    /\ last' = [op |-> "addResourcesToTable", res |-> last.res,
                ok |-> addResourcesToTable(table, last.res).ok]
    /\ Remember
    /\ UNCHANGED <<filesToMerge, mergedPackages, options, nops, parser>>

InitRecord ==
    /\ table \in RecordTables
    /\ filesToMerge = {}
    /\ mergedPackages = {}
    /\ options = NoOptions
    /\ prev = [table |-> {}, filesToMerge |-> {}]
    /\ nops = 0
    /\ parser = NoParser
    /\ last \in {[op |-> "record", res |-> r] : r \in Records}

NextRecord == AddResourcesToTable

SpecRecord == InitRecord /\ [][NextRecord]_vars

\* The <attr> elements parseAttrImpl is called on: with or without a format
\* and a min, and at most MaxAttrChildren children.
MaxAttrChildren == 2

AttrChildren ==
    {Element("", "enum", <<Attr("name", "a"), Attr("value", "1")>>, <<>>),
     Element("", "enum", <<Attr("name", "b"), Attr("value", "2")>>, <<>>),
     Element("", "flag", <<Attr("name", "a"), Attr("value", "1")>>, <<>>),
     Element("", "flag", <<Attr("name", "b"), Attr("value", "0x2")>>, <<>>),
     Element("", "enum", <<Attr("name", "c"), Attr("value", "x")>>, <<>>),
     Element("", "skip", <<>>, <<>>),
     Text(" ")}

RECURSIVE AttrChildLists(_)
AttrChildLists(n) ==
    IF n = 0 THEN {<<>>}
    ELSE AttrChildLists(n - 1)
             \cup {Append(l, c) : l \in {x \in AttrChildLists(n - 1) : Len(x) = n - 1},
                                  c \in AttrChildren}

AttrFormats ==
    {<<>>, <<Attr("format", "enum")>>, <<Attr("format", "flags")>>,
     <<Attr("format", "enum|flags")>>, <<Attr("format", "integer")>>,
     <<Attr("format", "integer | enum")>>, <<Attr("format", "bogus")>>}

AttrElements ==
    {Element("", "attr", <<Attr("name", "foo")>> \o format \o min, children) :
        format \in AttrFormats, min \in {<<>>, <<Attr("min", "1")>>},
        children \in AttrChildLists(MaxAttrChildren)}

\* ResourceParser::parseAttr(parser, outResource)
ParseAttr ==
    ValueCall([op |-> "parseAttr", el |-> last.el, result |-> parseAttrImpl(last.el, FALSE)])

InitAttr == NoTable /\ last \in {[op |-> "text", el |-> e] : e \in AttrElements}

NextAttr == ParseAttr

SpecAttr == InitAttr /\ [][NextAttr]_vars

\* The tables PrivateAttributeMover is called on: one or two packages, each
\* with or without an attr type of at most MaxEntries entries sorted by name.
MaxEntries == 3

EntryNames == <<"a", "b", "c", "d", "e">>

RECURSIVE EntryLists(_)
EntryLists(n) ==
    IF n = 0 THEN {<<>>}
    ELSE LET shorter == EntryLists(n - 1)
         IN  shorter \cup {Append(l, ResourceEntry(EntryNames[n], state)) :
                              l \in shorter, state \in {Public, Undefined}}

AttrTypes ==
    {NoType} \cup {ResourceTableType(state, entries) :
                      state \in {Public, Undefined}, entries \in EntryLists(MaxEntries)}

PrivateTypes ==
    {NoType, ResourceTableType(Undefined, <<>>),
     ResourceTableType(Undefined, <<ResourceEntry("z", Undefined)>>)}

PackageLists ==
    {<<ResourceTablePackage("", attr, private)>> :
        attr \in AttrTypes, private \in PrivateTypes}
      \cup {<<ResourceTablePackage("", first, NoType),
              ResourceTablePackage("lib", second, NoType)>> :
               first \in AttrTypes, second \in AttrTypes}

\* PrivateAttributeMover::Consume(context, table)
ConsumeCall ==
    ValueCall([op |-> "Consume", packages |-> last.packages,
               result |-> Consume(last.packages)])

InitMover == NoTable /\ last \in {[op |-> "text", packages |-> l] : l \in PackageLists}

NextMover == ConsumeCall

SpecMover == InitMover /\ [][NextMover]_vars

\* The strings a Utf8Iterator is made on, of at most MaxBytes bytes, and the
\* amounts Skip is called with.
MaxBytes == 3

RECURSIVE ByteStrings(_)
ByteStrings(n) ==
    IF n = 0 THEN {""}
    ELSE ByteStrings(n - 1)
             \cup {t \o b : t \in {x \in ByteStrings(n - 1) : Len(x) = n - 1},
                            b \in Utf8Bytes}

SkipAmounts == {-1, 0, 1, 2, MaxBytes + 1}

\* Utf8Iterator it(str)
Utf8Construct ==
    /\ last.op = "text"
    /\ last' = [op |-> "Utf8Iterator", amount |-> 0, before |-> Utf8Iterator(last.str),
                it |-> Utf8Iterator(last.str), calls |-> 0, aborted |-> FALSE,
                result |-> 0]
    /\ UNCHANGED <<table, filesToMerge, mergedPackages, options, prev, nops, parser>>

\* it.Next(), called by whoever holds the iterator
Utf8NextCall ==
    /\ last.op \in {"Utf8Iterator", "Next", "Skip"}
    /\ ~last.aborted
    /\ last' = [Utf8Next(last) EXCEPT !.op = "Next", !.amount = 0, !.before = last.it]
    /\ UNCHANGED <<table, filesToMerge, mergedPackages, options, prev, nops, parser>>

\* it.Skip(amount)
Utf8SkipCall(amount) ==
    /\ last.op \in {"Utf8Iterator", "Next", "Skip"}
    /\ ~last.aborted
    /\ last' = [Utf8Skip(last, amount) EXCEPT !.op = "Skip", !.amount = amount,
                                              !.before = last.it]
    /\ UNCHANGED <<table, filesToMerge, mergedPackages, options, prev, nops, parser>>

InitUtf8 == NoTable /\ last \in {[op |-> "text", str |-> t] : t \in ByteStrings(MaxBytes)}

NextUtf8 ==
    \/ Utf8Construct
    \/ Utf8NextCall
    \/ \E amount \in SkipAmounts : Utf8SkipCall(amount)

SpecUtf8 == InitUtf8 /\ [][NextUtf8]_vars

\* The executors and documents XmlActionExecutor::Execute is called with: a
\* manifest element with an application element registered under it, each
\* with one action, and documents of a root with up to two children.
Executors ==
    {[name \in {"manifest"} |->
         XmlNodeAction(<<root>>,
                       [child \in {"application"} |-> XmlNodeAction(<<app>>, NoActions)])] :
        root \in {"true", "false"}, app \in {"true", "false"}}

DocChildren ==
    {Element("", "application", <<>>, <<>>), Element("urn:x", "application", <<>>, <<>>),
     Element("", "bogus", <<>>, <<>>)}

DocChildLists ==
    {<<>>} \cup {<<c>> : c \in DocChildren} \cup {<<c, d>> : c \in DocChildren, d \in DocChildren}

XmlResources ==
    {[root |-> NoRoot]}
      \cup {[root |-> Element(ns, name, <<>>, children)] :
               ns \in {"", "urn:x"}, name \in {"manifest", "bogus"},
               children \in DocChildLists}

\* XmlActionExecutor::Execute(policy, diag, doc)
ExecuteCall ==
    ValueCall([op |-> "Execute", policy |-> last.policy, map |-> last.map,
               doc |-> last.doc, result |-> Execute(last.policy, last.map, last.doc)])

InitExecutor ==
    NoTable /\ last \in {[op |-> "text", policy |-> policy, map |-> map, doc |-> doc] :
                            policy \in {"kNone", "kWhitelist"}, map \in Executors,
                            doc \in XmlResources}

NextExecutor == ExecuteCall

SpecExecutor == InitExecutor /\ [][NextExecutor]_vars

\* The runs of Compile: at most MaxInputs files are named, each with contents
\* that compile or do not, and the output is one that can be written or not.
MaxInputs == 2

InputPaths ==
    {"res/values/a.xml", "res/layout/b.xml", "res/drawable-hdpi/c.9.png", "res/raw/d.xml",
     "res/bogus/e.xml", "f.xml", "res/layout-zz/g.xml"}

RECURSIVE InputLists(_)
InputLists(n) ==
    IF n = 0 THEN {<<>>}
    ELSE InputLists(n - 1)
             \cup {Append(l, [path |-> path, compiles |-> c]) :
                      l \in {x \in InputLists(n - 1) : Len(x) = n - 1},
                      path \in InputPaths, c \in BOOLEAN}

SetRun(run) ==
    /\ last' = run
    /\ UNCHANGED <<table, filesToMerge, mergedPackages, options, prev, nops, parser>>

\* Compile(args), up to the loop that collects the paths.
CompileStart ==
    /\ last.op = "text"
    /\ SetRun([op |-> "collect", args |-> last.args, writer |-> last.writer, i |-> 1,
               input_data |-> <<>>, processed |-> <<>>, diag |-> <<>>, error |-> FALSE,
               exit |-> -1])

\* One turn of the loop over the arguments: a path that does not yield its
\* data ends the run with 1.
CollectPath ==
    /\ last.op = "collect"
    /\ last.i <= Len(last.args)
    /\ LET r == ExtractResourcePathData(last.args[last.i].path, last.args[last.i].compiles)
       IN  IF r.ok
           THEN SetRun([last EXCEPT !.input_data = Append(last.input_data, r.data),
                                    !.i = last.i + 1])
           ELSE SetRun([last EXCEPT !.op = "exit", !.exit = 1,
                                    !.diag = Append(last.diag,
                                                    Diag("error", r.error \o " ("
                                                           \o last.args[last.i].path \o ")"))])

\* CreateDirectoryArchiveWriter: without a writer the run ends with 1.
CreateArchiveWriter ==
    /\ last.op = "collect"
    /\ last.i > Len(last.args)
    /\ IF last.writer THEN SetRun([last EXCEPT !.op = "process", !.i = 1])
       ELSE SetRun([last EXCEPT !.op = "exit", !.exit = 1])

\* One turn of the loop over the inputs.
ProcessInput ==
    /\ last.op = "process"
    /\ last.i <= Len(last.input_data)
    /\ SetRun(CompileTurn(last, last.input_data[last.i]))

\* The end of Compile.
CompileReturn ==
    /\ last.op = "process"
    /\ last.i > Len(last.input_data)
    /\ SetRun([last EXCEPT !.op = "exit", !.exit = IF last.error THEN 1 ELSE 0])

InitCompile ==
    NoTable /\ last \in {[op |-> "text", args |-> l, writer |-> w] :
                            l \in InputLists(MaxInputs), w \in BOOLEAN}

NextCompile ==
    \/ CompileStart
    \/ CollectPath
    \/ CreateArchiveWriter
    \/ ProcessInput
    \/ CompileReturn

SpecCompile == InitCompile /\ [][NextCompile]_vars

\* The Resolver at work: names are looked up while the local table grows by
\* entries, values and entry ids. seen keeps one lookup that found its name,
\* to compare the later ones with.
LocalAttribute == Attribute(FALSE, {"TYPE_FLAGS"}, <<>>, "", "")

\* The values the local table gets, each with its configuration.
LocalValues ==
    {ConfigValue(DefaultConfig, LocalAttribute), ConfigValue(DefaultConfig, [kind |-> "String"]),
     ConfigValue(ConfigEn, LocalAttribute)}

NoLookup == [op |-> "none"]

ResolverInit(packageId, typeId) ==
    [op |-> "Resolver",
     mTable |-> [packageId |-> packageId, typeId |-> typeId,
                 entries |-> [n \in LocalNames |-> NoLocalEntry]],
     mCache |-> [n \in ResolverNames |-> NotResolved],
     name |-> "", result |-> NotResolved, cached |-> FALSE, local |-> FALSE,
     seen |-> NoLookup]

SetResolver(r) ==
    /\ last' = r
    /\ UNCHANGED <<table, filesToMerge, mergedPackages, options, prev, nops, parser>>

\* What a lookup leaves: its result, the cache, whether the name was in the
\* cache and in the local table when it was made, and the lookup kept in
\* seen when none was and this one is chosen.
AfterLookup(r, op, name, found, keep) ==
    [r EXCEPT !.op = op, !.name = name, !.result = found.result, !.mCache = found.mCache,
              !.cached = r.mCache[name].found,
              !.local = HasLocal(r.mTable, name),
              !.seen = IF keep /\ r.seen = NoLookup /\ found.result.found
                       THEN [op |-> op, name |-> name, id |-> found.result.id,
                             attr |-> IF op = "findAttribute" THEN found.result.attr
                                      ELSE NoAttribute,
                             local |-> ~r.mCache[name].found /\ HasLocal(r.mTable, name)]
                       ELSE r.seen]

\* The Resolver between two lookups.
NoResult(r) ==
    [r EXCEPT !.name = "", !.result = NotResolved, !.cached = FALSE, !.local = FALSE]

\* resolver.findAttribute(name)
FindAttribute(name, keep) ==
    /\ last.op # "text"
    /\ SetResolver(AfterLookup(last, "findAttribute", name,
                               findAttribute_Resolver(last, name), keep))

\* resolver.findId(name)
FindId(name, keep) ==
    /\ last.op # "text"
    /\ SetResolver(AfterLookup(last, "findId", name, findId(last, name), keep))

\* The local table gets a value for a name under a configuration that has
\* none yet, and the entry with it when there was none.
AddLocalValue(name, cv) ==
    /\ last.op # "text"
    /\ LET entry == last.mTable.entries[name]
           values == IF entry.present THEN entry.values ELSE <<>>
       IN  /\ \A k \in 1..Len(values) : values[k].config # cv.config
           /\ SetResolver([NoResult(last) EXCEPT !.op = "addResource", !.mTable.entries[name] =
                              LocalEntry(IF entry.present THEN entry.entryId
                                         ELSE kUnsetEntryId,
                                         WithConfigValue(values, cv))])

\* An entry of the local table gets its id.
AssignEntryId(name) ==
    /\ last.op # "text"
    /\ last.mTable.entries[name].present
    /\ last.mTable.entries[name].entryId = kUnsetEntryId
    /\ SetResolver([NoResult(last) EXCEPT !.op = "assignIds",
                                          !.mTable.entries[name].entryId = "0003"])

InitResolver ==
    NoTable /\ last \in {ResolverInit(packageId, typeId) :
                            packageId \in {kUnsetPackageId, "7f"},
                            typeId \in {kUnsetTypeId, "01"}}

NextResolver ==
    \/ \E name \in ResolverNames, keep \in BOOLEAN : FindAttribute(name, keep)
    \/ \E name \in ResolverNames, keep \in BOOLEAN : FindId(name, keep)
    \/ \E name \in LocalNames, cv \in LocalValues : AddLocalValue(name, cv)
    \/ \E name \in LocalNames : AssignEntryId(name)

SpecResolver == InitResolver /\ [][NextResolver]_vars

\* The manifests of ManifestFixerTest and around them: a root with or
\* without a package, and under it up to two elements, <uses-sdk> with or
\* without each of the two versions among them.
UsesSdkElements ==
    {Element("", "uses-sdk", min \o target, <<>>) :
        min \in {<<>>, <<XmlAttribute(kSchemaAndroid, "minSdkVersion", "7")>>},
        target \in {<<>>, <<XmlAttribute(kSchemaAndroid, "targetSdkVersion", "21")>>}}

ManifestChildren ==
    UsesSdkElements \cup {Element("", "application", <<>>, <<>>),
                          Element("com", "uses-sdk", <<>>, <<>>)}

ManifestChildLists ==
    {<<>>} \cup {<<c>> : c \in ManifestChildren}
           \cup {<<c, d>> : c \in ManifestChildren, d \in ManifestChildren}

Manifests ==
    {[root |-> Element("", "other-tag", <<>>, <<>>)],
     [root |-> Element("com", "manifest", <<>>, <<>>)]}
      \cup {[root |-> Element("", "manifest", <<XmlAttribute("", "package", package)>>,
                              children)] :
               package \in {"android", "@string/str"}, children \in ManifestChildLists}

FixerOptions ==
    {ManifestFixerOptions(Just("8"), Just("22")), ManifestFixerOptions(Nothing, Just("22")),
     ManifestFixerOptions(Nothing, Nothing)}

\* ManifestFixer(options).consume(context, doc)
ConsumeManifest ==
    ValueCall([op |-> "consume", options |-> last.options, doc |-> last.doc,
               result |-> consume(last.options, last.doc)])

InitFixer ==
    NoTable /\ last \in {[op |-> "text", options |-> o, doc |-> d] :
                            o \in FixerOptions, d \in Manifests}

NextFixer == ConsumeManifest

SpecFixer == InitFixer /\ [][NextFixer]_vars

(***************************************************************************)
(* Properties of the value parsers                                         *)
(***************************************************************************)

IsHex(ch) ==
    ch \in {"0", "1", "2", "3", "4", "5", "6", "7", "8", "9",
            "a", "b", "c", "d", "e", "f", "A", "B", "C", "D", "E", "F"}

LowerHex(ch) ==
    CASE ch = "A" -> "a" [] ch = "B" -> "b" [] ch = "C" -> "c"
      [] ch = "D" -> "d" [] ch = "E" -> "e" [] ch = "F" -> "f"
      [] OTHER -> ch

\* The digits of a colour text in lower case, each written times times.
RECURSIVE Spread(_, _)
Spread(digits, times) ==
    IF digits = "" THEN ""
    ELSE LET d == LowerHex(SubSeq(digits, 1, 1))
         IN  d \o (IF times = 2 THEN d ELSE "") \o Spread(Tail(digits), times)

\* The ARGB word that the digits of a colour text stand for.
ExpectedColor(digits) ==
    CASE Len(digits) = 3 -> "0xff" \o Spread(digits, 2)
      [] Len(digits) = 4 -> "0x" \o Spread(digits, 2)
      [] Len(digits) = 6 -> "0xff" \o Spread(digits, 1)
      [] OTHER -> "0x" \o Spread(digits, 1)

IsColorText(c) ==
    /\ Len(c) \in {4, 5, 7, 9}
    /\ SubSeq(c, 1, 1) = "#"
    /\ \A i \in 2..Len(c) : IsHex(SubSeq(c, i, i))

\* C11: tryParseColor of a text that is, once trimmed, '#' and 3, 4, 6 or 8
\* hexadecimal digits yields the ARGB word with the digits of the short
\* forms doubled and an alpha of ff where the text has none; of any other
\* text it yields no value. #abc is 0xffaabbcc, #1abc is 0x11aabbcc, #112233
\* is 0xff112233 and #11223344 is 0x11223344.
C11_ColorWord ==
    /\ last.op = "tryParseColor" =>
          LET c == trimWhitespace(last.text)
          IN  IF IsColorText(c)
              THEN /\ last.result.kind = "BinaryPrimitive"
                   /\ last.result.data = ExpectedColor(SubSeq(c, 2, Len(c)))
              ELSE last.result = NoValue
    /\ tryParseColor("#abc").data = "0xffaabbcc"
    /\ tryParseColor("#1abc").data = "0x11aabbcc"
    /\ tryParseColor("#112233").data = "0xff112233"
    /\ tryParseColor("#11223344").data = "0x11223344"

C11_ShortColor ==
    /\ last.op = "tryParseColor"
    /\ last.text = " #9f0 "
    /\ last.result.data = "0xff99ff00"

\* The bits set in a word, 0 the least significant.
BitsOfWord(word) ==
    {b \in 0..31 : (NibbleOf(SubSeq(word, 8 - b \div 4, 8 - b \div 4))
                        \div (2 ^ (b % 4))) % 2 = 1}

\* The bits of the symbol of a name, written out.
FlagBits(name) ==
    CASE name = "A" -> {0}
      [] name = "B" -> {1}
      [] name = "High" -> {1, 31}
      [] OTHER -> {}

KnownFlags == {"A", "B", "High"}

\* A part without the blanks around it.
BarePart(part) ==
    CASE part = " A" -> "A" [] part = "B " -> "B" [] part = " " -> "" [] OTHER -> part

\* C12: tryParseFlagSymbol of a text in which every part between '|', once
\* trimmed, is the entry name of a symbol, letter case included, yields the
\* or of the values of these symbols; of an empty or blank text it yields 0;
\* of a text with a part that names no symbol it yields no value at all.
\* With A = 1 and B = 2, "A|B" is 3.
C12_FlagOr ==
    /\ last.op = "tryParseFlagSymbol" =>
          LET bare == [i \in 1..Len(last.parts) |-> BarePart(last.parts[i])]
          IN  IF \A i \in 1..Len(bare) : bare[i] = ""
                     /\ Len(bare) <= 1
              THEN last.result.data = "0x00000000"
              ELSE IF \A i \in 1..Len(bare) : bare[i] \in KnownFlags
              THEN /\ last.result.kind = "BinaryPrimitive"
                   /\ BitsOfWord(SubSeq(last.result.data, 3, 10))
                          = UNION {FlagBits(bare[i]) : i \in 1..Len(bare)}
              ELSE last.result = NoValue
    /\ tryParseFlagSymbol(FlagAttr, "A|B").data = "0x00000003"
    /\ tryParseFlagSymbol(FlagAttr, "  ").data = "0x00000000"
    /\ tryParseFlagSymbol(FlagAttr, "A|b") = NoValue

C12_ThreeFlags ==
    /\ last.op = "tryParseFlagSymbol"
    /\ last.text = " A|High|B "
    /\ last.result.data = "0x80000003"

\* A text in lower case, letter by letter.
RECURSIVE LowerCase(_)
LowerCase(text) ==
    IF text = "" THEN ""
    ELSE LET ch == SubSeq(text, 1, 1)
             lower == CASE ch = "T" -> "t" [] ch = "R" -> "r" [] ch = "U" -> "u"
                        [] ch = "E" -> "e" [] ch = "F" -> "f" [] ch = "A" -> "a"
                        [] ch = "L" -> "l" [] ch = "S" -> "s" [] OTHER -> ch
         IN  lower \o LowerCase(Tail(text))

\* C13: tryParseBool of a text that is, once trimmed, the word true in any
\* mix of letter cases yields the boolean 0xffffffff, of the word false in
\* any mix of cases the boolean 0x00000000, and of any other text no value.
C13_BoolAnyCase ==
    last.op = "tryParseBool" =>
        LET word == LowerCase(trimWhitespace(last.text))
        IN  IF word = "true"
            THEN last.result = BinaryPrimitive("TYPE_INT_BOOLEAN", "ffffffff")
            ELSE IF word = "false"
            THEN last.result = BinaryPrimitive("TYPE_INT_BOOLEAN", "00000000")
            ELSE last.result = NoValue

\* The word true in mixed case is taken for no boolean.
C13_MixedCaseRefused ==
    /\ last.op = "tryParseBool"
    /\ last.text = "tRuE"
    /\ last.result = NoValue

\* One interpretation of a text: whether it is tried, and what it gives.
Interpretation(tried, value) == [tried |-> tried, value |-> value]

\* The interpretations of a text under a mask, in the order of the claim; a
\* number with a unit counts only when its own type is in the mask.
Interpretations(text, typeMask) ==
    <<Interpretation(TRUE, tryParseNullOrEmpty(text)),
      Interpretation(TRUE, tryParseReference(text).value),
      Interpretation("TYPE_COLOR" \in typeMask, tryParseColor(text)),
      Interpretation("TYPE_BOOLEAN" \in typeMask, tryParseBool(text)),
      Interpretation("TYPE_INTEGER" \in typeMask, tryParseInt(text)),
      Interpretation(tryParseFloat(text) # NoValue
                         /\ tryParseFloat(text).dataType \in typeMask,
                     tryParseFloat(text))>>

SymbolInterpretations(text, typeMask) ==
    <<Interpretation("TYPE_ENUM" \in typeMask, tryParseEnumSymbol(ItemAttr(typeMask), text)),
      Interpretation("TYPE_FLAGS" \in typeMask, tryParseFlagSymbol(ItemAttr(typeMask), text))>>

Matches(list) == {i \in 1..Len(list) : list[i].tried /\ list[i].value # NoValue}

FirstMatch(list) ==
    IF Matches(list) = {} THEN NoValue
    ELSE list[CHOOSE i \in Matches(list) : \A j \in Matches(list) : i <= j].value

\* C15: parsing an item for a type mask gives the first interpretation that
\* matches in the order sentinel, reference, color, boolean, integer, number
\* with its own type in the mask; the attribute entry point goes on to enum
\* and then flag symbols only when all of these fail; when nothing matches
\* there is no value.
C15_FirstMatch ==
    /\ last.op = "tryParseItemForAttribute"
          => last.result.item = FirstMatch(Interpretations(last.text, last.typeMask))
    /\ last.op = "tryParseItemForAttr"
          => last.result.item =
                 FirstMatch(Interpretations(last.text, last.typeMask)
                                \o SymbolInterpretations(last.text, last.typeMask))

\* The text 12 is an integer, a float and the name of an enum symbol: with all
\* three in the mask the integer is the one returned.
C15_IntegerBeforeEnum ==
    /\ last.op = "tryParseItemForAttr"
    /\ last.text = "12"
    /\ last.typeMask = {"TYPE_INTEGER", "TYPE_FLOAT", "TYPE_ENUM"}
    /\ last.result.item = BinaryPrimitive("TYPE_INT_DEC", "0000000c")

\* The text a list of nodes holds outside the elements of an unknown
\* namespace.
RECURSIVE KeptText(_)
KeptText(nodes) ==
    IF nodes = <<>> THEN ""
    ELSE LET n == Head(nodes)
         IN  (CASE n.node = "text" -> n.text
                [] n.node = "element" /\ n.namespace \in {"", sXliffNamespaceUri}
                       -> KeptText(n.children)
                [] OTHER -> "") \o KeptText(Tail(nodes))

\* The number of elements below a list of nodes whose namespace is in a set.
RECURSIVE ElementsOf(_, _)
ElementsOf(nodes, unknown) ==
    IF nodes = <<>> THEN 0
    ELSE LET n == Head(nodes)
         IN  (IF n.node # "element" THEN 0
              ELSE (IF (n.namespace \notin {"", sXliffNamespaceUri}) = unknown
                       /\ (unknown \/ n.namespace = "")
                    THEN 1 ELSE 0) + ElementsOf(n.children, unknown))
                 + ElementsOf(Tail(nodes), unknown)

\* C18: flattening gives a warning and no span for an element of an unknown
\* namespace and keeps none of the text inside it; an xliff element gives no
\* warning and no span and its text is kept; an element of no namespace
\* gives one span and its text is kept.
C18_UnknownNamespaceDropped ==
    last.op = "flattenXmlSubtree"
       => /\ last.result.styleString.str = KeptText(last.content)
          /\ Len(last.result.diag) = ElementsOf(last.content, TRUE)
          /\ Len(last.result.styleString.spans) = ElementsOf(last.content, FALSE)

\* a<u:g>c</u:g> flattens to "ac": the text inside the unknown element is kept.
C18_UnknownTextKept ==
    /\ last.op = "flattenXmlSubtree"
    /\ last.content = <<Text("a"), Element(UnknownNamespaceUri, "g", <<>>, <<Text("c")>>)>>
    /\ last.result.styleString.str = "ac"
    /\ Len(last.result.diag) = 1
    /\ last.result.styleString.spans = <<>>

\* An <item> with a name, a type that is one of the item elements, and no
\* format or one that parseFormatType knows.
IsFormattedItem(el) ==
    /\ el.name = "item"
    /\ findNonEmptyAttribute(el.attrs, "name") # ""
    /\ findNonEmptyAttribute(el.attrs, "type") \in ItemElements
    /\ \/ findNonEmptyAttribute(el.attrs, "format") = ""
       \/ parseFormatType(findNonEmptyAttribute(el.attrs, "format")) # {}

\* The element without its format attribute.
WithoutFormat(el) ==
    [el EXCEPT !.attrs = SelectSeq(el.attrs, LAMBDA a : a.name # "format")]

IsTypedElement(el) ==
    /\ el.name \in ResourceTypes \ (ItemElements \cup BagElements \cup {"id", "item"})
    /\ findNonEmptyAttribute(el.attrs, "name") # ""

HasDiag(diag, level, message) ==
    \E i \in 1..Len(diag) : diag[i] = Diag(level, message)

\* C17: an element named by a resource type such as <layout> or <xml> has a
\* value only when its content is a reference: where it succeeds its value is
\* a Reference, and any other content fails with "Expected a reference".
C17_OnlyReference ==
    (last.op = "parseResource" /\ IsTypedElement(last.element))
       => /\ last.result.ok => last.result.res.value.kind = "Reference"
          /\ ~last.result.ok
                => HasDiag(last.result.diag, "error",
                           "invalid value for type '" \o last.element.name
                               \o "'. Expected a reference")

\* <layout name="foo"><b>hi</b></layout> succeeds with a StyledString.
C17_StyledLayout ==
    /\ last.op = "parseResource"
    /\ last.element = Element("", "layout", ItemAttrs("", "", "foo"),
                              <<Element("", "b", <<>>, <<Text("hi")>>)>>)
    /\ last.result.ok
    /\ last.result.res.value.kind = "StyledString"

\* The turn of parseResources just taken was on a <plurals> with a name in
\* which the items i and j, i before j, name the same quantity.
SameQuantity(n, i, j) ==
    LET q(k) == trimWhitespace(findNonEmptyAttribute(n.children[k].attrs, "quantity"))
    IN  /\ i < j
        /\ \A k \in {i, j} : /\ n.children[k].node = "element"
                             /\ n.children[k].namespace = ""
                             /\ n.children[k].name = "item"
        /\ q(i) \in Quantities
        /\ q(i) = q(j)

IsNamedPlurals(n) ==
    /\ n.node = "element" /\ n.namespace = "" /\ n.name = "plurals"
    /\ findNonEmptyAttribute(n.attrs, "name") # ""

EntriesOf(t, name) == {e \in t : e.name = name}

\* C14: two items of one quantity in a <plurals> are an error: "duplicate
\* quantity" is reported, the quantity keeps the value of its first item, the
\* items after the second are still parsed, the element fails, and the table
\* has no Plural of that name that it had not before.
C14_DuplicateQuantity ==
    (last.op = "parseResources" /\ IsNamedPlurals(last.node))
       => \A i, j \in 1..Len(last.node.children) :
            SameQuantity(last.node, i, j)
               => LET q(k) == trimWhitespace(
                                  findNonEmptyAttribute(last.node.children[k].attrs,
                                                        "quantity"))
                      first == CHOOSE k \in 1..i : /\ SameQuantity(last.node, k, j)
                                                   /\ \A m \in 1..(k - 1) :
                                                        ~SameQuantity(last.node, m, j)
                      plural == PluralLoop(last.node.children, Len(last.node.children))
                      name == ResourceName("", "plurals",
                                           findNonEmptyAttribute(last.node.attrs, "name"))
                  IN  /\ HasDiag(last.diag, "error",
                                 "duplicate quantity '" \o q(j) \o "'")
                      /\ plural.values[q(j)]
                            = parseXml(last.node.children[first].children,
                                       {"TYPE_STRING"}, FALSE).item
                      /\ \A k \in (j + 1)..Len(last.node.children) :
                            (q(k) \in Quantities) => plural.values[q(k)] # NoValue
                      /\ last.outcome = "failed"
                      /\ parser.error
                      /\ EntriesOf(table, name) = EntriesOf(prev.table, name)

\* <plurals name="p"> with the quantities one, one and other: the second item
\* is reported and the element fails on an empty table.
C14_SecondOneReported ==
    /\ last.op = "parseResources"
    /\ last.node = Element("", "plurals", Named("p"),
                           <<PluralItem("one", "x"), PluralItem(" one ", "y"),
                             PluralItem("other", "z")>>)
    /\ last.diag = <<Diag("error", "duplicate quantity 'one'")>>
    /\ PluralLoop(last.node.children, Len(last.node.children)).values["one"].data = "x"
    /\ PluralLoop(last.node.children, Len(last.node.children)).values["other"].data = "z"
    /\ last.outcome = "failed"
    /\ table = {}

\* The outcomes of the turns that set the error flag.
Failures == {"text", "failed", "refused"}

\* C19: a child of <resources> that fails stops nothing: a child is parsed
\* and inserted whatever failed before it, parseResources returns only after
\* every child of the document had its turn, and it returns failure exactly
\* when some child failed or was text that is not whitespace.
C19_ErrorsAccumulate ==
    /\ last.op = "parseResources"
          => /\ Len(last.outcomes) = parser.pos
             /\ parser.error = (\E i \in 1..Len(last.outcomes) : last.outcomes[i] \in Failures)
             /\ last.outcome = parseResourcesTurn(prev.table, last.node).outcome
             /\ table = parseResourcesTurn(prev.table, last.node).table
    /\ last.op = "return"
          => /\ Len(last.outcomes) = Len(parser.document)
             /\ last.result = ~(\E i \in 1..Len(last.outcomes) : last.outcomes[i] \in Failures)

\* After <integer name="bar">x</integer> failed, <string name="foo"> is
\* inserted, and the result of the parse is failure.
C19_InsertedAfterFailure ==
    /\ parser.document = <<Element("", "integer", Named("bar"), <<Text("x")>>),
                           Element("", "string", Named("foo"), <<Text("hello")>>)>>
    /\ last.op = "return"
    /\ last.outcomes = <<"failed", "inserted">>
    /\ ~last.result
    /\ HasValue(table, ResourceName("", "string", "foo"), DefaultConfig)
    /\ ValueOf(table, ResourceName("", "string", "foo"), DefaultConfig) = String("hello")

\* C20: a child of <resources> that fails to parse leaves the table as it
\* found it: no entry, value or Id of it or of its children is in the table.
C20_FailureLeavesTable ==
    (last.op = "parseResources" /\ last.outcome = "failed") => table = prev.table

\* A <plurals> that fails on its second item after @+id/bar in its first
\* leaves the Id bar in the table.
C20_IdLeftBehind ==
    /\ last.op = "parseResources"
    /\ last.outcome = "failed"
    /\ prev.table = {}
    /\ \E e \in table : e.name = ResourceName("", "id", "bar")

\* Order of two uint32_t values.
Uint32Less(a, b) == a.hi < b.hi \/ (a.hi = b.hi /\ a.lo < b.lo)

\* The names of the elements of no namespace below a list of nodes, in the
\* order in which they close.
RECURSIVE ClosingOrder(_)
ClosingOrder(nodes) ==
    IF nodes = <<>> THEN <<>>
    ELSE LET n == Head(nodes)
         IN  (IF n.node # "element" THEN <<>>
              ELSE ClosingOrder(n.children)
                       \o (IF n.namespace = "" THEN <<SpanName(n.name, n.attrs)>>
                           ELSE <<>>))
                 \o ClosingOrder(Tail(nodes))

\* C30: every span of a flattened string starts no later than it ends and
\* ends inside the flattened text, as 32-bit offsets, also for an element
\* without text; the spans come in the order their elements close, and none
\* is left on the stack.
C30_SpansWellFormed ==
    last.op = "flattenXmlSubtree"
       => LET spans == last.result.styleString.spans
              size == Uint32(Len(last.result.styleString.str))
          IN  /\ \A i \in 1..Len(spans) :
                    /\ ~Uint32Less(spans[i].lastChar, spans[i].firstChar)
                    /\ Uint32Less(spans[i].lastChar, size)
              /\ [i \in 1..Len(spans) |-> spans[i].name] = ClosingOrder(last.content)

\* The order of the spans and their number alone.
C30_SpansInClosingOrder ==
    last.op = "flattenXmlSubtree"
       => [i \in 1..Len(last.result.styleString.spans) |->
              last.result.styleString.spans[i].name] = ClosingOrder(last.content)

\* <g></g> at the beginning of a string: the span ends at 0xffffffff.
C30_EmptySpanWraps ==
    /\ last.op = "flattenXmlSubtree"
    /\ last.content = <<Element("", "g", <<>>, <<>>)>>
    /\ last.result.styleString.str = ""
    /\ last.result.styleString.spans
          = <<[name |-> "g", firstChar |-> [hi |-> 0, lo |-> 0],
               lastChar |-> [hi |-> 65535, lo |-> 65535]]>>

\* a<g></g>: the span starts at 1 and ends at 0.
C30_EmptySpanEndsBeforeStart ==
    /\ last.op = "flattenXmlSubtree"
    /\ last.content = <<Text("a"), Element("", "g", <<>>, <<>>)>>
    /\ last.result.styleString.spans
          = <<[name |-> "g", firstChar |-> Uint32(1), lastChar |-> Uint32(0)]>>

\* What a record without children does to a table: its symbol state, then
\* its value unless the symbol state was refused.
AfterSymbol(t, res) ==
    IF res.symbolState # NoState THEN setSymbolStateImpl(t, res.name, res.symbolState)
    ELSE [ok |-> TRUE, table |-> t]

AfterValue(t, res) ==
    IF ~AfterSymbol(t, res).ok THEN AfterSymbol(t, res)
    ELSE IF res.value # NoValue
    THEN addResourceImpl(AfterSymbol(t, res).table, res.name, res.config, res.value)
    ELSE AfterSymbol(t, res)

\* The table after the first n children, each inserted whatever became of
\* the ones before it, and the children among them that were refused.
RECURSIVE AfterChildren(_, _, _)
AfterChildren(t, children, n) ==
    IF n = 0 THEN t ELSE AfterValue(AfterChildren(t, children, n - 1), children[n]).table

RefusedChildren(t, children) ==
    {n \in 1..Len(children) : ~AfterValue(AfterChildren(t, children, n - 1), children[n]).ok}

\* C26: a record is inserted parent first: its symbol state, then its value,
\* then its children in order; a parent that is refused leaves all of its
\* children out, a child that is refused leaves none of its later siblings
\* out, and the result is failure when any of them was refused.
C26_ParentBeforeChildren ==
    last.op = "addResourcesToTable"
       => LET parent == AfterValue(prev.table, last.res)
          IN  IF ~parent.ok
              THEN ~last.ok /\ table = parent.table
              ELSE /\ table = AfterChildren(parent.table, last.res.childResources,
                                            Len(last.res.childResources))
                   /\ last.ok = (RefusedChildren(parent.table, last.res.childResources) = {})

\* The first child has a name that is refused: the second is inserted all
\* the same, after the parent, and the result is failure.
C26_SiblingAfterRefusedChild ==
    /\ last.op = "addResourcesToTable"
    /\ prev.table = {}
    /\ last.res.name = ResourceName("", "bool", "foo")
    /\ last.res.value = BoolTrue
    /\ Len(last.res.childResources) = 2
    /\ last.res.childResources[1].name.entry = "a$b"
    /\ last.res.childResources[2].name.entry = "bar"
    /\ ~last.ok
    /\ HasValue(table, ResourceName("", "bool", "foo"), DefaultConfig)
    /\ HasValue(table, ResourceName("", "bool", "bar"), DefaultConfig)

\* A parent whose name is refused: its children stay out of the table.
C26_ChildrenOfRefusedParent ==
    /\ last.op = "addResourcesToTable"
    /\ prev.table = {}
    /\ last.res.name.entry = "a$b"
    /\ Len(last.res.childResources) = 1
    /\ last.res.childResources[1].name.entry = "bar"
    /\ ~last.ok
    /\ table = {}

\* The kinds of symbol an <attr> names: those of its children, and those
\* its format= names.
ChildKinds(el) ==
    {c.name : c \in {el.children[i] : i \in {j \in 1..Len(el.children) :
                                                el.children[j].node = "element"
                                                /\ el.children[j].namespace = ""}}}
        \cap {"enum", "flag"}

FormatKinds(el) ==
    IF ~findAttribute(el.attrs, "format").found THEN {}
    ELSE {k \in {"enum", "flag"} :
            \E i \in 1..Len(tokenize(findAttribute(el.attrs, "format").value, "|")) :
                trimWhitespace(tokenize(findAttribute(el.attrs, "format").value, "|")[i])
                    = (IF k = "enum" THEN "enum" ELSE "flags")}

\* C27: an Attribute that a successful parse produces never has both the
\* enum and the flags bit in its type mask.
C27_EnumXorFlags ==
    (last.op = "parseAttr" /\ last.result.ok)
       => ~({"TYPE_ENUM", "TYPE_FLAGS"} \subseteq last.result.value.typeMask)

\* C27, the part about the children: the parse fails when children of both
\* kinds occur, when a child of one kind occurs under a format that names
\* the other, and when two children of one kind have the same name.
C27_MixedChildrenFail ==
    last.op = "parseAttr"
       => /\ ChildKinds(last.el) = {"enum", "flag"} => ~last.result.ok
          /\ ("enum" \in ChildKinds(last.el) /\ "flag" \in FormatKinds(last.el))
                => ~last.result.ok
          /\ ("flag" \in ChildKinds(last.el) /\ "enum" \in FormatKinds(last.el))
                => ~last.result.ok
          /\ (\E i, j \in 1..Len(last.el.children) :
                 /\ i < j
                 /\ last.el.children[i].node = "element"
                 /\ last.el.children[i] = last.el.children[j]
                 /\ last.el.children[i].name \in {"enum", "flag"})
                => ~last.result.ok

\* format="enum|flags" on an <attr> without children: the parse succeeds.
C27_FormatNamesBoth ==
    /\ last.op = "parseAttr"
    /\ last.el.children = <<>>
    /\ findAttribute(last.el.attrs, "format").value = "enum|flags"
    /\ last.result.ok
    /\ {"TYPE_ENUM", "TYPE_FLAGS"} \subseteq last.result.value.typeMask

\* An <enum> followed by a <flag>: the parse fails on the second.
C27_EnumThenFlag ==
    /\ last.op = "parseAttr"
    /\ Len(last.el.children) = 2
    /\ last.el.children[1].node = "element" /\ last.el.children[1].name = "enum"
    /\ last.el.children[2].node = "element" /\ last.el.children[2].name = "flag"
    /\ ~last.result.ok

\* What the split of a package's attr type is to be: the Public entries
\* stay, the others make the private attr type, both in their order.
SplitOf(package, after) ==
    /\ after.attr.present
    /\ after.attr.symbolStatus = package.attr.symbolStatus
    /\ after.attr.entries = SelectSeq(package.attr.entries, LAMBDA e : e.symbolStatus = Public)
    /\ after.attrPrivate.present
    /\ after.attrPrivate.entries
           = SelectSeq(package.attr.entries, LAMBDA e : e.symbolStatus # Public)

\* C28: after Consume every package whose attr type is Public is split, and
\* every other package is as it was.
C28_EveryPublicPackageSplit ==
    (last.op = "Consume" /\ ~last.result.aborted)
       => \A i \in 1..Len(last.packages) :
             IF last.packages[i].attr.present
                /\ last.packages[i].attr.symbolStatus = Public
             THEN SplitOf(last.packages[i], last.result.packages[i])
             ELSE last.result.packages[i] = last.packages[i]

\* C28, for the first package that has an attr type: it is split when the
\* type is Public and is unchanged when it is not, and every other package
\* is unchanged.
C28_FirstAttrPackageSplit ==
    (last.op = "Consume" /\ ~last.result.aborted)
       => \A i \in 1..Len(last.packages) :
             IF /\ last.packages[i].attr.present
                /\ last.packages[i].attr.symbolStatus = Public
                /\ \A j \in 1..(i - 1) : ~last.packages[j].attr.present
             THEN SplitOf(last.packages[i], last.result.packages[i])
             ELSE last.result.packages[i] = last.packages[i]

\* Two packages whose attr types are Public, the second with an entry that
\* is not: the second package keeps that entry in its attr type.
C28_SecondPackageUntouched ==
    /\ last.op = "Consume"
    /\ Len(last.packages) = 2
    /\ last.packages[1].attr.present /\ last.packages[1].attr.symbolStatus = Public
    /\ last.packages[2].attr.present /\ last.packages[2].attr.symbolStatus = Public
    /\ \E k \in 1..Len(last.packages[2].attr.entries) :
          last.packages[2].attr.entries[k].symbolStatus # Public
    /\ last.result.packages[2] = last.packages[2]

\* Entries that are not Public, Public, not Public: the outer two go to the
\* private attr type in their order and the middle one is moved up.
C28_MovedInOrder ==
    /\ last.op = "Consume"
    /\ Len(last.packages) = 1
    /\ last.packages[1].attr.present
    /\ last.packages[1].attr.entries
           = <<ResourceEntry("a", Undefined), ResourceEntry("b", Public),
               ResourceEntry("c", Undefined)>>
    /\ last.result.packages[1].attr.entries = <<ResourceEntry("b", Public)>>
    /\ last.result.packages[1].attrPrivate.entries
           = <<ResourceEntry("a", Undefined), ResourceEntry("c", Undefined)>>

C29_EndsOnNul ==
    /\ last.op = "Next" /\ ~last.aborted
    /\ last.it.str_ = "a0a"
    /\ ~HasNext(last.it)

C29_EndsOnRefusedByte ==
    /\ last.op = "Next" /\ ~last.aborted
    /\ last.it.str_ = "axa"
    /\ ~HasNext(last.it)
    /\ last.it.next_pos_ = last.before.next_pos_

\* The root of a document that the executor has an action tree for.
RegisteredRoot(map, doc) ==
    doc.root # NoRoot /\ doc.root.namespace = "" /\ doc.root.name \in DOMAIN map

\* C25: on a document without a root, or with a root that has a namespace
\* or no action registered, Execute fails with one error exactly under
\* kWhitelist and else succeeds, no action run either way; on a registered
\* root the result is that of the root's action tree, which fails when the
\* root's own action returns false.
C25_UnknownRootByPolicy ==
    last.op = "Execute"
       => IF ~RegisteredRoot(last.map, last.doc)
          THEN /\ last.result.ok = (last.policy # "kWhitelist")
               /\ last.result.ran = <<>>
               /\ IF last.policy = "kWhitelist"
                  THEN Len(last.result.diag) = 1 /\ last.result.diag[1].level = "error"
                  ELSE last.result.diag = <<>>
          ELSE /\ last.result
                     = NodeExecute(last.policy, last.map[last.doc.root.name], last.doc.root)
               /\ last.result.ran # <<>>
               /\ last.result.ran[1] = <<"manifest", last.map["manifest"].actions[1]>>
               /\ last.map["manifest"].actions[1] = "false" => ~last.result.ok

\* A root with a namespace under a policy that is not kWhitelist: success,
\* although the root's name is registered and its action returns false.
C25_NamespacedRootPasses ==
    /\ last.op = "Execute"
    /\ last.policy = "kNone"
    /\ last.doc.root # NoRoot
    /\ last.doc.root.namespace = "urn:x"
    /\ last.doc.root.name = "manifest"
    /\ last.map["manifest"].actions[1] = "false"
    /\ last.result.ok
    /\ last.result.ran = <<>>

\* No root under kWhitelist: failure with the error.
C25_NoRootRefused ==
    /\ last.op = "Execute"
    /\ last.policy = "kWhitelist"
    /\ last.doc.root = NoRoot
    /\ ~last.result.ok
    /\ last.result.diag = <<Diag("error", "no root XML tag found")>>

\* An input of a run that fails: its path yields no data, no compilation
\* takes it, or its contents do not compile.
InputFails(arg) ==
    \/ ~ExtractResourcePathData(arg.path, arg.compiles).ok
    \/ CompilerOf(ExtractResourcePathData(arg.path, arg.compiles).data) = ""
    \/ ~arg.compiles

\* C23: when a run of Compile that has its output ends, every input was
\* handed to the loop in turn, whatever became of the others, and the exit
\* code is not 0 exactly when an input failed.
C23_EveryInputProcessed ==
    (last.op = "exit" /\ last.writer)
       => /\ Len(last.processed) = Len(last.args)
          /\ \A k \in 1..Len(last.processed) : last.processed[k].source = last.args[k].path
          /\ (last.exit # 0) = (\E k \in 1..Len(last.args) : InputFails(last.args[k]))

\* C23, for the runs whose paths all yield their data: every input is
\* processed in turn and the exit code is not 0 exactly when one failed.
C23_LoopProcessesEveryInput ==
    (last.op = "exit" /\ last.writer
        /\ \A k \in 1..Len(last.args) :
              ExtractResourcePathData(last.args[k].path, last.args[k].compiles).ok)
       => /\ Len(last.processed) = Len(last.args)
          /\ \A k \in 1..Len(last.processed) :
                /\ last.processed[k].source = last.args[k].path
                /\ last.processed[k].ok = ~InputFails(last.args[k])
          /\ (last.exit # 0) = (\E k \in 1..Len(last.args) : InputFails(last.args[k]))

\* A values file that compiles, named before a path without a directory:
\* the run ends with 1 and the values file was not compiled.
C23_BadPathEndsRun ==
    /\ last.op = "exit"
    /\ last.writer
    /\ Len(last.args) = 2
    /\ last.args[1] = [path |-> "res/values/a.xml", compiles |-> TRUE]
    /\ last.args[2].path = "f.xml"
    /\ last.exit = 1
    /\ last.processed = <<>>

\* A file of an unknown type first, then a values file: the second is
\* compiled all the same and the run ends with 1.
C23_ProcessedAfterFailure ==
    /\ last.op = "exit"
    /\ Len(last.args) = 2
    /\ last.args[1].path = "res/bogus/e.xml"
    /\ last.args[2] = [path |-> "res/values/a.xml", compiles |-> TRUE]
    /\ Len(last.processed) = 2
    /\ ~last.processed[1].ok
    /\ last.processed[2].ok
    /\ last.exit = 1

\* The entry of the local table a lookup was made for, and the value it has
\* under the default configuration, if any.
LookedUp == last.mTable.entries[last.name]

DefaultIsAttribute(entry) ==
    \E k \in 1..Len(entry.values) :
        entry.values[k].config = DefaultConfig /\ entry.values[k].value.kind = "Attribute"

FullId(tbl, entry) ==
    IF tbl.packageId # kUnsetPackageId /\ tbl.typeId # kUnsetTypeId
       /\ entry.entryId # kUnsetEntryId
    THEN ResourceId(tbl.packageId, tbl.typeId, entry.entryId)
    ELSE NoId

\* C21: findAttribute for a name of the local table that is not in the
\* cache finds it, with the id exactly when the three ids are set and with
\* the Attribute exactly when the value under the default configuration is
\* one.
C21_DefaultValueSupplies ==
    (last.op = "findAttribute" /\ last.local /\ ~last.cached)
       => /\ last.result.found
          /\ last.result.id = FullId(last.mTable, LookedUp)
          /\ (last.result.attr # NoAttribute) = DefaultIsAttribute(LookedUp)

\* C21, as the code has it: the id exactly when the three ids are set, the
\* Attribute exactly when the first value of the entry is one, and the cache
\* as it was.
C21_FirstValueSupplies ==
    (last.op = "findAttribute" /\ last.local /\ ~last.cached)
       => /\ last.result.found
          /\ last.result.id = FullId(last.mTable, LookedUp)
          /\ (last.result.attr # NoAttribute)
                = (LookedUp.values # <<>> /\ LookedUp.values[1].value.kind = "Attribute")
          /\ ~last.mCache[last.name].found

\* An entry whose only value is an Attribute under en: it supplies the
\* Attribute of the result.
C21_NonDefaultSupplies ==
    /\ last.op = "findAttribute" /\ last.local /\ ~last.cached
    /\ Len(LookedUp.values) = 1
    /\ LookedUp.values[1].config = ConfigEn
    /\ last.result.attr = LocalAttribute

\* An entry with the three ids set and an Attribute under the default
\* configuration.
C21_FullIdAndAttribute ==
    /\ last.op = "findAttribute" /\ last.local /\ ~last.cached
    /\ last.result.id = ResourceId("7f", "01", "0003")
    /\ LookedUp.values[1].config = DefaultConfig
    /\ last.result.attr = LocalAttribute

\* A lookup gives what the lookup kept in seen gave for the same name.
SameAsSeen ==
    /\ last.result.found
    /\ last.result.id = last.seen.id
    /\ (last.op = "findAttribute" /\ last.seen.op = "findAttribute")
          => last.result.attr = last.seen.attr

\* C22: every lookup that finds its name leaves it in the cache, a lookup
\* that finds it nowhere does not, and every later lookup of a name gives
\* what an earlier one gave, whatever the local table got in between.
C22_EveryLookupCached ==
    last.op \in {"findAttribute", "findId"}
       => /\ last.result.found = last.mCache[last.name].found
          /\ (last.seen # NoLookup /\ last.seen.name = last.name) => SameAsSeen

\* C22, for the pre-compiled source: the cache holds what buildCacheEntry
\* makes of a name and nothing else, a lookup leaves its name in the cache
\* exactly when it did not find it in the local table and found it in the
\* cache or the source, and every later lookup of a name first found there
\* gives the same, whatever the local table got in between.
C22_SourceLookupsCached ==
    /\ last.op # "text"
          => \A n \in ResolverNames : last.mCache[n] \in {NotResolved, buildCacheEntry(n)}
    /\ last.op \in {"findAttribute", "findId"}
          => /\ last.mCache[last.name].found
                   = (last.result.found /\ (last.cached \/ ~last.local))
             /\ (last.seen # NoLookup /\ last.seen.name = last.name /\ ~last.seen.local)
                   => SameAsSeen

\* A name found in the source first and then added to the local table with
\* ids and an Attribute of its own: the lookup still gives the cached one.
C22_CachedOutlivesTable ==
    /\ last.op = "findAttribute"
    /\ last.name = "android:attr/foo"
    /\ last.seen # NoLookup /\ last.seen.name = last.name /\ ~last.seen.local
    /\ last.local
    /\ FullId(last.mTable, LookedUp) = ResourceId("7f", "01", "0003")
    /\ DefaultIsAttribute(LookedUp)
    /\ last.result = buildCacheEntry(last.name)

\* A name found in the local table without its id, and found again with
\* the id once the entry has it.
C22_LocalResultFollowsTable ==
    /\ last.op = "findId"
    /\ last.name = "app:attr/bar"
    /\ last.seen # NoLookup /\ last.seen.name = last.name /\ last.seen.local
    /\ last.seen.id = NoId
    /\ last.result.id = ResourceId("7f", "01", "0003")
    /\ ~last.mCache[last.name].found

\* What a version of a <uses-sdk> is to be after the fixer: what it was
\* when the element named it, else the default.
VersionKept(before, after, name, default) ==
    /\ HasXmlAttribute(after, kSchemaAndroid, name)
    /\ XmlAttributeValue(after, kSchemaAndroid, name)
           = (IF HasXmlAttribute(before, kSchemaAndroid, name)
              THEN XmlAttributeValue(before, kSchemaAndroid, name)
              ELSE default)

UsesSdkFixed(before, after, opts) ==
    /\ IsUsesSdk(after)
    /\ VersionKept(before, after, "minSdkVersion", opts.minSdkVersionDefault.value)
    /\ VersionKept(before, after, "targetSdkVersion", opts.targetSdkVersionDefault.value)

C24_UsesSdkCreated ==
    /\ last.op = "consume" /\ last.result.ok
    /\ last.options = ManifestFixerOptions(Just("8"), Just("22"))
    /\ last.doc.root.children = <<>>
    /\ Len(last.result.doc.root.children) = 1
    /\ UsesSdkFixed(Element("", "uses-sdk", <<>>, <<>>), last.result.doc.root.children[1],
                    last.options)

=============================================================================
